---- MODULE Spec2Model ----
(***************************************************************************)
(* A model of the go-collection library (package collection): the lazy,   *)
(* push-style sequence engine  Collection[T] func(yield func(T) bool)  and *)
(* the operators built on it.                                              *)
(*                                                                         *)
(* A *Collection[T] is a pointer, so collections live in a heap: a         *)
(* sequence of objects, a pointer being an index.  An object is either a   *)
(* slice-backed source (slices.Values(s)) or the closure a combinator      *)
(* returned, which captured the pointer to its source and its arguments.   *)
(*                                                                         *)
(* Draining is interpreted as the code runs it: Run(h, id, K, log) is the  *)
(* call c(yield) of object id, where K is the stack of loop bodies the     *)
(* yielded value passes through (its head is the yield function handed to  *)
(* this object, its last frame is the terminal consumer), and              *)
(* Yield(h, K, v, log) is one call of that yield function.  A frame holds   *)
(* the local variables of the enclosing closure and ret, set when the loop *)
(* body executed  return / break.  log is the sequence of observable       *)
(* events: an element pulled from a slice, a caller-supplied function      *)
(* invoked, an element received by the terminal consumer.                  *)
(***************************************************************************)
EXTENDS Integers, Sequences, FiniteSets, TLC

VARIABLES
    heap,   \* the collections that exist: a sequence of objects
    orig,   \* the slice the first collection was built from
    last,   \* the operation performed last and its arguments
    out,    \* the elements that operation handed to its consumer, in order
    log,    \* the events of that operation, in order
    pc,     \* where each goroutine stands, by name; empty without goroutines
    idx,    \* per producer goroutine, how many elements it has pulled
    closed, \* per channel, whether it has been closed
    held,   \* the values the Zip loop has received: v1 and v2
    work,   \* the goroutines an errgroup has started, in the order of g.Go
    grp     \* the errgroup of ParallelForEach and its context

vars == <<heap, orig, last, out, log, pc, idx, closed, held, work, grp>>

gvars == <<pc, idx, closed, held, work, grp>>

\* no goroutine has been started
NoGoroutines ==
    /\ pc = <<>> /\ idx = <<>> /\ closed = <<>> /\ held = <<>>
    /\ work = <<>> /\ grp = <<>>

(***************************************************************************)
(* Bounds and value domains                                                *)
(***************************************************************************)
\* the element type T: three distinguishable values
Vals == {0, 1, 2}

\* longest slice a collection is built from
MaxLen == 3

\* longest slice the chains of SpecChain and SpecLazy are built over
MaxSrc == 2

\* most collections derived from the first one in one run
MaxDerived == 2

RECURSIVE SeqsUpTo(_)
SeqsUpTo(n) ==
    IF n = 0 THEN {<<>>}
    ELSE LET shorter == SeqsUpTo(n - 1)
         IN shorter \cup {Append(s, v) : s \in {t \in shorter : Len(t) = n - 1}, v \in Vals}

Slices == SeqsUpTo(MaxLen)

\* every equality function a caller can supply, symmetric and transitive or not
EqRels == SUBSET (Vals \X Vals)

\* the equality most callers supply: a == b
EqStd == {<<v, v>> : v \in Vals}

Min2(a, b) == IF a < b THEN a ELSE b
Max2(a, b) == IF a > b THEN a ELSE b

(***************************************************************************)
(* Caller-supplied functions, by name                                      *)
(***************************************************************************)
\* the predicates, selectors and actions the callers of this model pass
Preds == {"isOdd"}
Sels == {"plus10"}
Subs == {"twice"}
Actions == {"print"}

Pred(f, x) ==
    CASE f = "isOdd" -> x % 2 = 1
      [] f = "isPos" -> x > 0
      [] OTHER -> FALSE

\* selectors: the result type may differ from the element type
Sel(f, x) ==
    CASE f = "plus10" -> x + 10
      [] f = "parity" -> x % 2
      [] OTHER -> x

\* SelectMany's function: the collection it returns, as the slice behind it
Sub(f, x) ==
    CASE f = "twice" -> <<x, x>>
      [] OTHER -> <<x>>

(***************************************************************************)
(* Heap objects, frames and events                                         *)
(***************************************************************************)
\* op: what the object is; src, other: the pointers it captured; n, f, e: the
\* number, the named function and the element it captured; equals: the equality
\* function it captured, as the set of pairs <<a, b>> with equals(a, b); data:
\* the slice behind a slice-backed collection
Obj(op, src, other, n, f, e, equals, data) ==
    [op |-> op, src |-> src, other |-> other, n |-> n, f |-> f, e |-> e,
     equals |-> equals, data |-> data]

\* NewFromSlice: a collection ranging over the slice s
NewFromSlice(s) == Obj("slice", 0, 0, 0, "", 0, {}, s)

\* NewFromChannel: a collection ranging over a channel on which the elements
\* of s were sent before it was closed; n of them have been received
NewFromChannel(s) == Obj("chan", 0, 0, 0, "", 0, {}, s)

\* a closure capturing the pointer c and its arguments
Closure(op, c, other, n, f, e, equals) == Obj(op, c, other, n, f, e, equals, <<>>)

Frame(kind, id) ==
    [kind |-> kind, id |-> id, cnt |-> 0, flag |-> FALSE, ret |-> FALSE,
     buf |-> <<>>, x |-> 0]

PullEv(id, v) == [ev |-> "pull", id |-> id, v |-> v, ok |-> TRUE]
CallEv(id, v) == [ev |-> "call", id |-> id, v |-> v, ok |-> TRUE]
RecvEv(v, ok) == [ev |-> "recv", id |-> 0, v |-> v, ok |-> ok]

\* closure id indexed its slice at i, outside it: a run-time panic, which
\* ends the drain; it is the last event of its log
PanicEv(id, i) == [ev |-> "panic", id |-> id, v |-> i, ok |-> FALSE]

Panicked(lg) == lg # <<>> /\ lg[Len(lg)].ev = "panic"

Res(K, lg, ok) == [K |-> K, log |-> lg, ok |-> ok]
Ran(K, lg) == [K |-> K, log |-> lg]

RECURSIVE Run(_, _, _, _), Yield(_, _, _, _), RunSlice(_, _, _, _, _)
RECURSIVE RunChan(_, _, _, _)

(***************************************************************************)
(* Loop bodies: one call of the yield function a closure handed to its     *)
(* source.  Each returns the frames as the call left them, the log, and    *)
(* ok: TRUE when the body ran to its end (the source goes on), FALSE when  *)
(* it executed return or break.                                            *)
(***************************************************************************)
\* if !yield(v) { return }
Forward(h, K, v, lg) ==
    LET r == Yield(h, Tail(K), v, lg)
    IN Res(<<[Head(K) EXCEPT !.ret = ~r.ok]>> \o r.K, r.log, r.ok)

\* the body falls through to the next iteration with frame fr
Continue(fr, K, lg) == Res(<<fr>> \o Tail(K), lg, TRUE)

\* the body executes a bare return
Return(K, lg) == Res(<<[Head(K) EXCEPT !.ret = TRUE]>> \o Tail(K), lg, FALSE)

\* for _, v := range s { if !yield(v) { return } } over a slice value s
RECURSIVE YieldAll(_, _, _, _, _)
YieldAll(h, K, s, i, lg) ==
    IF i > Len(s) THEN Res(K, lg, TRUE)
    ELSE LET r == Yield(h, K, s[i], lg)
         IN IF ~r.ok THEN r ELSE YieldAll(h, r.K, s, i + 1, r.log)

\* Where with the result of yield ignored: the loop goes on after a stop
WhereBodyNoStop(h, K, v, lg) ==
    LET o == h[Head(K).id]
        lg1 == Append(lg, CallEv(Head(K).id, v))
    IN IF Pred(o.f, v)
       THEN LET r == Yield(h, Tail(K), v, lg1) IN Res(<<Head(K)>> \o r.K, r.log, TRUE)
       ELSE Continue(Head(K), K, lg1)

WhereBody(h, K, v, lg) ==
    LET o == h[Head(K).id]
        lg1 == Append(lg, CallEv(Head(K).id, v))
    IN IF Pred(o.f, v) THEN Forward(h, K, v, lg1) ELSE Continue(Head(K), K, lg1)

RejectBody(h, K, v, lg) ==
    LET o == h[Head(K).id]
        lg1 == Append(lg, CallEv(Head(K).id, v))
    IN IF ~Pred(o.f, v) THEN Forward(h, K, v, lg1) ELSE Continue(Head(K), K, lg1)

SelectBody(h, K, v, lg) ==
    LET o == h[Head(K).id]
    IN Forward(h, K, Sel(o.f, v), Append(lg, CallEv(Head(K).id, v)))

SelectManyBody(h, K, v, lg) ==
    LET o == h[Head(K).id]
        r == YieldAll(h, Tail(K), Sub(o.f, v), 1, Append(lg, CallEv(Head(K).id, v)))
    IN Res(<<[Head(K) EXCEPT !.ret = ~r.ok]>> \o r.K, r.log, r.ok)

\* unique: no element seen so far with equals(v, s)
\* a Distinct that hands equals its arguments the other way round
DistinctBodyFlipped(h, K, v, lg) ==
    LET fr == Head(K)
        unique == \A i \in 1..Len(fr.buf) : <<fr.buf[i], v>> \notin h[fr.id].equals
        seen == Append(fr.buf, v)
    IN IF unique
       THEN Forward(h, <<[fr EXCEPT !.buf = seen]>> \o Tail(K), v, lg)
       ELSE Continue(fr, K, lg)

DistinctBody(h, K, v, lg) ==
    LET fr == Head(K)
        unique == \A i \in 1..Len(fr.buf) : <<v, fr.buf[i]>> \notin h[fr.id].equals
        seen == Append(fr.buf, v)
    IN IF unique
       THEN Forward(h, <<[fr EXCEPT !.buf = seen]>> \o Tail(K), v, lg)
       ELSE Continue(fr, K, lg)

\* a Skip that drops one element more than n
SkipBodyOffByOne(h, K, v, lg) ==
    LET fr == Head(K)
        n == h[fr.id].n
    IN IF fr.cnt > n
       THEN LET r == Forward(h, K, v, lg)
            IN IF ~r.ok THEN r
               ELSE Res(<<[Head(r.K) EXCEPT !.cnt = fr.cnt + 1]>> \o Tail(r.K), r.log, TRUE)
       ELSE Continue([fr EXCEPT !.cnt = fr.cnt + 1], K, lg)

SkipBody(h, K, v, lg) ==
    LET fr == Head(K)
        n == h[fr.id].n
    IN IF fr.cnt >= n
       THEN LET r == Forward(h, K, v, lg)
            IN IF ~r.ok THEN r
               ELSE Res(<<[Head(r.K) EXCEPT !.cnt = fr.cnt + 1]>> \o Tail(r.K), r.log, TRUE)
       ELSE Continue([fr EXCEPT !.cnt = fr.cnt + 1], K, lg)

\* flag: the skipping phase has ended (skip = false)
SkipUntilBody(h, K, v, lg) ==
    LET fr == Head(K)
        o == h[fr.id]
        lg1 == IF fr.flag THEN lg ELSE Append(lg, CallEv(fr.id, v))
    IN IF fr.flag \/ Pred(o.f, v)
       THEN Forward(h, <<[fr EXCEPT !.flag = TRUE]>> \o Tail(K), v, lg1)
       ELSE Continue(fr, K, lg1)

\* a SkipWhile that asks f about every element
SkipWhileBodyAsksAgain(h, K, v, lg) ==
    LET o == h[Head(K).id]
        lg1 == Append(lg, CallEv(Head(K).id, v))
    IN IF ~Pred(o.f, v) THEN Forward(h, K, v, lg1) ELSE Continue(Head(K), K, lg1)

SkipWhileBody(h, K, v, lg) ==
    LET fr == Head(K)
        o == h[fr.id]
        lg1 == IF fr.flag THEN lg ELSE Append(lg, CallEv(fr.id, v))
    IN IF fr.flag \/ ~Pred(o.f, v)
       THEN Forward(h, <<[fr EXCEPT !.flag = TRUE]>> \o Tail(K), v, lg1)
       ELSE Continue(fr, K, lg1)

TakeBody(h, K, v, lg) ==
    LET fr == Head(K)
        n == h[fr.id].n
    IN IF fr.cnt < n
       THEN LET r == Forward(h, K, v, lg)
            IN IF ~r.ok THEN r
               ELSE Res(<<[Head(r.K) EXCEPT !.cnt = fr.cnt + 1]>> \o Tail(r.K), r.log, TRUE)
       ELSE Return(K, lg)

TakeUntilBody(h, K, v, lg) ==
    LET o == h[Head(K).id]
        lg1 == Append(lg, CallEv(Head(K).id, v))
    IN IF Pred(o.f, v) THEN Return(K, lg1) ELSE Forward(h, K, v, lg1)

TakeWhileBody(h, K, v, lg) ==
    LET o == h[Head(K).id]
        lg1 == Append(lg, CallEv(Head(K).id, v))
    IN IF ~Pred(o.f, v) THEN Return(K, lg1) ELSE Forward(h, K, v, lg1)

PeekBody(h, K, v, lg) ==
    Forward(h, K, v, Append(lg, CallEv(Head(K).id, v)))

\* the loops of Concat, Append and Prepend: for v := range *c { if !yield(v) { return } }
PassBody(h, K, v, lg) == Forward(h, K, v, lg)

\* the inner loop of Intersect and Except: x is v1, flag is exists
ExistsBody(h, K, v, lg) ==
    LET fr == Head(K)
    IN IF <<fr.x, v>> \in h[fr.id].equals
       THEN Res(<<[fr EXCEPT !.flag = TRUE, !.ret = TRUE]>> \o Tail(K), lg, FALSE)
       ELSE Continue(fr, K, lg)

Exists(h, id, v1, lg) ==
    Run(h, h[id].other, <<[Frame("exists", id) EXCEPT !.x = v1]>>, lg)

IntersectBody(h, K, v, lg) ==
    LET r == Exists(h, Head(K).id, v, lg)
    IN IF Head(r.K).flag THEN Forward(h, K, v, r.log) ELSE Continue(Head(K), K, r.log)

\* an Except that keeps the elements found in the other collection
ExceptBodyKeepsFound(h, K, v, lg) ==
    LET r == Exists(h, Head(K).id, v, lg)
    IN IF Head(r.K).flag THEN Forward(h, K, v, r.log) ELSE Continue(Head(K), K, r.log)

ExceptBody(h, K, v, lg) ==
    LET r == Exists(h, Head(K).id, v, lg)
    IN IF ~Head(r.K).flag THEN Forward(h, K, v, r.log) ELSE Continue(Head(K), K, r.log)

\* ToSlice's loop: val = append(val, t)
ToSliceBody(h, K, v, lg) ==
    Continue([Head(K) EXCEPT !.buf = Append(Head(K).buf, v)], K, lg)

\* First's loop: return t, true
FirstBody(h, K, v, lg) ==
    LET fr == [Head(K) EXCEPT !.buf = <<v>>, !.flag = TRUE]
    IN Return(<<fr>> \o Tail(K), Append(lg, RecvEv(v, FALSE)))

\* an ElementAt that counts before it compares
ElementAtBodyCountsFirst(h, K, v, lg) ==
    LET fr == Head(K)
    IN IF fr.cnt + 1 = fr.x
       THEN Return(<<[fr EXCEPT !.buf = <<v>>, !.flag = TRUE]>> \o Tail(K),
                   Append(lg, RecvEv(v, FALSE)))
       ELSE Continue([fr EXCEPT !.cnt = fr.cnt + 1], K, Append(lg, RecvEv(v, TRUE)))

\* ElementAt's loop: x is index, cnt is count
ElementAtBody(h, K, v, lg) ==
    LET fr == Head(K)
    IN IF fr.cnt = fr.x
       THEN Return(<<[fr EXCEPT !.buf = <<v>>, !.flag = TRUE]>> \o Tail(K),
                   Append(lg, RecvEv(v, FALSE)))
       ELSE Continue([fr EXCEPT !.cnt = fr.cnt + 1], K, Append(lg, RecvEv(v, TRUE)))

\* Join's inner loop, x being outerItem and the closure's f the names of the
\* two key selectors: if outerKey == innerKey, the result selector's value,
\* here the pair, goes to the consumer of the Join, below the frame of the
\* outer loop
JoinInnerBody(h, K, v, lg) ==
    LET fr == Head(K)
        f == h[fr.id].f
    IN IF Sel(f[1], fr.x) = Sel(f[2], v)
       THEN LET r == Yield(h, Tail(Tail(K)), <<fr.x, v>>, lg)
            IN Res(<<[fr EXCEPT !.ret = ~r.ok], Head(Tail(K))>> \o r.K, r.log, r.ok)
       ELSE Continue(fr, K, lg)

\* Join's outer loop: for innerItem := range *inner { ... }, once for each
\* outerItem; the return in the inner loop leaves the closure
JoinBody(h, K, v, lg) ==
    LET r == Run(h, h[Head(K).id].other,
                 <<[Frame("joinInner", Head(K).id) EXCEPT !.x = v]>> \o K, lg)
    IN IF Head(r.K).ret
       THEN Return(Tail(r.K), r.log)
       ELSE Res(Tail(r.K), r.log, TRUE)

\* Len's loop: count++
LenBody(h, K, v, lg) == Continue([Head(K) EXCEPT !.cnt = Head(K).cnt + 1], K, lg)

\* ForEach's loop: action(v)
ForEachBody(h, K, v, lg) ==
    Continue([Head(K) EXCEPT !.buf = Append(Head(K).buf, v)], K,
             Append(lg, RecvEv(v, TRUE)))

\* the accumulator the callers of this model pass: the results of distinct call
\* sequences differ, so a result tells which calls were made and in which order
Accumulate(result, item) == result * (Cardinality(Vals) + 1) + item + 1

\* Aggregate with the seed passed to every call of the accumulator
AggregateBodyFromSeed(h, K, v, lg) ==
    LET fr == Head(K)
    IN Continue([fr EXCEPT !.cnt = Accumulate(fr.x, v)], K, Append(lg, CallEv(0, v)))

\* Aggregate's loop: result = accumulator(result, item); cnt is result, x is seed
AggregateBody(h, K, v, lg) ==
    LET fr == Head(K)
    IN Continue([fr EXCEPT !.cnt = Accumulate(fr.cnt, v)], K, Append(lg, CallEv(0, v)))

\* a Single that counts to the end of the source
SingleBodyCountsOn(h, K, v, lg) ==
    LET fr == Head(K)
    IN Continue([fr EXCEPT !.buf = IF fr.cnt > 0 THEN @ ELSE <<v>>, !.cnt = fr.cnt + 1],
                K, Append(lg, RecvEv(v, TRUE)))

\* Single's loop: if count > 0 { return }; element = v; count++
SingleBody(h, K, v, lg) ==
    LET fr == Head(K)
    IN IF fr.cnt > 0
       THEN Return(K, Append(lg, RecvEv(v, FALSE)))
       ELSE Continue([fr EXCEPT !.buf = <<v>>, !.cnt = fr.cnt + 1], K,
                     Append(lg, RecvEv(v, TRUE)))

Yield(h, K, v, lg) ==
    LET kind == Head(K).kind
    IN CASE kind = "where" -> WhereBody(h, K, v, lg)
         [] kind = "reject" -> RejectBody(h, K, v, lg)
         [] kind = "select" -> SelectBody(h, K, v, lg)
         [] kind = "selectMany" -> SelectManyBody(h, K, v, lg)
         [] kind = "distinct" -> DistinctBody(h, K, v, lg)
         [] kind = "skip" -> SkipBody(h, K, v, lg)
         [] kind = "skipUntil" -> SkipUntilBody(h, K, v, lg)
         [] kind = "skipWhile" -> SkipWhileBody(h, K, v, lg)
         [] kind = "take" -> TakeBody(h, K, v, lg)
         [] kind = "takeUntil" -> TakeUntilBody(h, K, v, lg)
         [] kind = "takeWhile" -> TakeWhileBody(h, K, v, lg)
         [] kind = "peek" -> PeekBody(h, K, v, lg)
         [] kind = "pass" -> PassBody(h, K, v, lg)
         [] kind = "exists" -> ExistsBody(h, K, v, lg)
         [] kind = "intersect" -> IntersectBody(h, K, v, lg)
         [] kind = "except" -> ExceptBody(h, K, v, lg)
         [] kind = "toSlice" -> ToSliceBody(h, K, v, lg)
         [] kind = "first" -> FirstBody(h, K, v, lg)
         [] kind = "elementAt" -> ElementAtBody(h, K, v, lg)
         [] kind = "forEach" -> ForEachBody(h, K, v, lg)
         [] kind = "aggregate" -> AggregateBody(h, K, v, lg)
         [] kind = "single" -> SingleBody(h, K, v, lg)
         [] kind = "len" -> LenBody(h, K, v, lg)
         [] kind = "join" -> JoinBody(h, K, v, lg)
         [] kind = "joinInner" -> JoinInnerBody(h, K, v, lg)

(***************************************************************************)
(* Closures: the call c(yield)                                             *)
(***************************************************************************)
\* slices.Values(s): for _, v := range s { if !yield(v) { return } }
RunSlice(h, id, i, K, lg) ==
    IF i > Len(h[id].data) THEN Ran(K, lg)
    ELSE LET v == h[id].data[i]
             r == Yield(h, K, v, Append(lg, PullEv(id, v)))
         IN IF ~r.ok THEN Ran(r.K, r.log) ELSE RunSlice(h, id, i + 1, r.K, r.log)

\* how many elements of channel id the drain with log lg has received
Pulled(id, lg) == Cardinality({i \in 1..Len(lg) : lg[i].ev = "pull" /\ lg[i].id = id})

\* NewFromChannel's closure: for v := range ch { if !yield(v) { return } }.
\* A receive takes the element off the channel: the next one is the first
\* that no drain has received, whichever drain received the others.
RunChan(h, id, K, lg) ==
    LET pos == h[id].n + Pulled(id, lg)
    IN IF pos >= Len(h[id].data) THEN Ran(K, lg)
       ELSE LET v == h[id].data[pos + 1]
                r == Yield(h, K, v, Append(lg, PullEv(id, v)))
            IN IF ~r.ok THEN Ran(r.K, r.log) ELSE RunChan(h, id, r.K, r.log)

\* the heap after a drain with log lg: what was received is off the channels
Received(h, lg) ==
    [id \in 1..Len(h) |->
        IF h[id].op = "chan" THEN [h[id] EXCEPT !.n = @ + Pulled(id, lg)] ELSE h[id]]

\* a closure that is one loop over its source: for v := range *c { body }
RunLoop(h, id, K, lg) ==
    LET r == Run(h, h[id].src, <<Frame(h[id].op, id)>> \o K, lg)
    IN Ran(Tail(r.K), r.log)

RunConcat(h, id, K, lg) ==
    LET r1 == Run(h, h[id].src, <<Frame("pass", id)>> \o K, lg)
    IN IF Head(r1.K).ret \/ Panicked(r1.log) THEN Ran(Tail(r1.K), r1.log)
       ELSE LET r2 == Run(h, h[id].other, <<Frame("pass", id)>> \o Tail(r1.K), r1.log)
            IN Ran(Tail(r2.K), r2.log)

RunAppend(h, id, K, lg) ==
    LET r1 == Run(h, h[id].src, <<Frame("pass", id)>> \o K, lg)
    IN IF Head(r1.K).ret \/ Panicked(r1.log) THEN Ran(Tail(r1.K), r1.log)
       ELSE LET r2 == Yield(h, Tail(r1.K), h[id].e, r1.log)
            IN Ran(r2.K, r2.log)

RunPrepend(h, id, K, lg) ==
    LET r1 == Yield(h, K, h[id].e, lg)
    IN IF ~r1.ok THEN Ran(r1.K, r1.log)
       ELSE LET r2 == Run(h, h[id].src, <<Frame("pass", id)>> \o r1.K, r1.log)
            IN Ran(Tail(r2.K), r2.log)

\* for i := start; i < end; i++ { if !yield(slice[i]) { return } }, with Go's
\* indices from 0; slice[i] with i outside the slice panics
RECURSIVE YieldRange(_, _, _, _, _, _, _)
YieldRange(h, id, K, slice, i, end, lg) ==
    IF i >= end THEN Ran(K, lg)
    ELSE IF i < 0 \/ i >= Len(slice) THEN Ran(K, Append(lg, PanicEv(id, i)))
    ELSE LET r == Yield(h, K, slice[i + 1], lg)
         IN IF ~r.ok THEN Ran(r.K, r.log)
            ELSE YieldRange(h, id, r.K, slice, i + 1, end, r.log)

\* SkipLast's closure: slice := c.ToSlice(); for i := range len(slice) - n
RunSkipLast(h, id, K, lg) ==
    LET m == Run(h, h[id].src, <<Frame("toSlice", 0)>>, lg)
        slice == Head(m.K).buf
    IN IF Panicked(m.log) THEN Ran(K, m.log)
       ELSE YieldRange(h, id, K, slice, 0, Len(slice) - h[id].n, m.log)

\* TakeLast's closure: start := max(len(slice)-n, 0)
RunTakeLast(h, id, K, lg) ==
    LET m == Run(h, h[id].src, <<Frame("toSlice", 0)>>, lg)
        slice == Head(m.K).buf
        start == Max2(Len(slice) - h[id].n, 0)
    IN IF Panicked(m.log) THEN Ran(K, m.log)
       ELSE YieldRange(h, id, K, slice, start, Len(slice), m.log)

Run(h, id, K, lg) ==
    LET op == h[id].op
    IN CASE op = "slice" -> RunSlice(h, id, 1, K, lg)
         [] op = "chan" -> RunChan(h, id, K, lg)
         [] op = "skipLast" -> RunSkipLast(h, id, K, lg)
         [] op = "takeLast" -> RunTakeLast(h, id, K, lg)
         [] op = "concat" -> RunConcat(h, id, K, lg)
         [] op = "append" -> RunAppend(h, id, K, lg)
         [] op = "prepend" -> RunPrepend(h, id, K, lg)
         [] OTHER -> RunLoop(h, id, K, lg)

(***************************************************************************)
(* Terminal consumers                                                      *)
(***************************************************************************)
Drained(r) == [out |-> Head(r.K).buf, ok |-> Head(r.K).flag, log |-> r.log]

ToSlice(h, c) == Drained(Run(h, c, <<Frame("toSlice", 0)>>, <<>>))

ForEach(h, c) == Drained(Run(h, c, <<Frame("forEach", 0)>>, <<>>))

First(h, c) == Drained(Run(h, c, <<Frame("first", 0)>>, <<>>))

\* the result is returned as the one element of out
Aggregate(h, c, seed) ==
    LET r == Run(h, c, <<[Frame("aggregate", 0) EXCEPT !.cnt = seed, !.x = seed]>>, <<>>)
    IN [out |-> <<Head(r.K).cnt>>, ok |-> TRUE, log |-> r.log]

ElementAt(h, c, index) ==
    IF index < 0 THEN [out |-> <<>>, ok |-> FALSE, log |-> <<>>]
    ELSE Drained(Run(h, c, <<[Frame("elementAt", 0) EXCEPT !.x = index]>>, <<>>))

\* Single: the bare return inside the loop returns ok = false, with element
\* still holding the first element; after the loop ok is count == 1
SingleReturns(r) ==
    [out |-> Head(r.K).buf, ok |-> ~Head(r.K).ret /\ Head(r.K).cnt = 1, log |-> r.log]

Single(h, c) == SingleReturns(Run(h, c, <<Frame("single", 0)>>, <<>>))

\* SingleOrError: if !ok { return element, ErrNotExactlyOneElement }; err is
\* "" for nil
OrErrNotExactlyOne(r) ==
    [out |-> r.out, ok |-> r.ok, log |-> r.log,
     err |-> IF r.ok THEN "" ELSE "ErrNotExactlyOneElement"]

SingleOrError(h, c) == OrErrNotExactlyOne(Single(h, c))

(***************************************************************************)
(* Combinators: what calling one does to the heap, and the events of the   *)
(* call itself.  A lazy combinator only allocates its closure.             *)
(***************************************************************************)
Built(h, lg) == [heap |-> h, log |-> lg]

\* Where filtering at once into a slice of its own
WhereEager(h, c, f) ==
    LET lazy == Append(h, Closure("where", c, 0, 0, f, 0, {}))
        r == Drained(Run(lazy, Len(lazy), <<Frame("toSlice", 0)>>, <<>>))
    IN Built(Append(h, NewFromSlice(r.out)), r.log)

Where(h, c, f) == Built(Append(h, Closure("where", c, 0, 0, f, 0, {})), <<>>)

Reject(h, c, f) == Built(Append(h, Closure("reject", c, 0, 0, f, 0, {})), <<>>)

Select(h, c, f) == Built(Append(h, Closure("select", c, 0, 0, f, 0, {})), <<>>)

SelectMany(h, c, f) == Built(Append(h, Closure("selectMany", c, 0, 0, f, 0, {})), <<>>)

Distinct(h, c, equals) == Built(Append(h, Closure("distinct", c, 0, 0, "", 0, equals)), <<>>)

Skip(h, c, n) == Built(Append(h, Closure("skip", c, 0, n, "", 0, {})), <<>>)

SkipUntil(h, c, f) == Built(Append(h, Closure("skipUntil", c, 0, 0, f, 0, {})), <<>>)

SkipWhile(h, c, f) == Built(Append(h, Closure("skipWhile", c, 0, 0, f, 0, {})), <<>>)

\* a Take that copies the first n elements when it is called
TakeSnapshot(h, c, n) ==
    Built(Append(h, NewFromSlice(SubSeq(ToSlice(h, c).out, 1,
                                        Min2(Max2(n, 0), Len(ToSlice(h, c).out))))), <<>>)

Take(h, c, n) == Built(Append(h, Closure("take", c, 0, n, "", 0, {})), <<>>)

TakeUntil(h, c, f) == Built(Append(h, Closure("takeUntil", c, 0, 0, f, 0, {})), <<>>)

TakeWhile(h, c, f) == Built(Append(h, Closure("takeWhile", c, 0, 0, f, 0, {})), <<>>)

Concat(h, c, other) == Built(Append(h, Closure("concat", c, other, 0, "", 0, {})), <<>>)

AppendTo(h, c, e) == Built(Append(h, Closure("append", c, 0, 0, "", e, {})), <<>>)

Prepend(h, c, e) == Built(Append(h, Closure("prepend", c, 0, 0, "", e, {})), <<>>)

SkipLast(h, c, n) ==
    Built(Append(h, Closure("skipLast", c, 0, n, "", 0, {})), <<>>)

TakeLast(h, c, n) ==
    Built(Append(h, Closure("takeLast", c, 0, n, "", 0, {})), <<>>)

\* f: the names of outerKeySelector and innerKeySelector
Join(h, outer, inner, f) ==
    Built(Append(h, Closure("join", outer, inner, 0, f, 0, {})), <<>>)

Peek(h, c, f) == Built(Append(h, Closure("peek", c, 0, 0, f, 0, {})), <<>>)

RECURSIVE Rev(_)
Rev(s) == IF s = <<>> THEN <<>> ELSE Append(Rev(Tail(s)), Head(s))

\* Reverse reversing the slice behind c where it lies
ReverseInPlace(h, c) ==
    LET r == ToSlice(h, c)
        rev == NewFromSlice(Rev(r.out))
    IN Built(Append([h EXCEPT ![c] = rev], rev), r.log)

\* Reverse drains c into a fresh slice, reverses it and wraps it
Reversed(h, r) == Built(Append(h, NewFromSlice(Rev(r.out))), r.log)

Reverse(h, c) == Reversed(h, ToSlice(h, c))

Intersect(h, c, other, equals) ==
    Built(Append(h, Closure("intersect", c, other, 0, "", 0, equals)), <<>>)

Except(h, c, other, equals) ==
    Built(Append(h, Closure("except", c, other, 0, "", 0, equals)), <<>>)

\* Union is c.Concat(other).Distinct(equals)
Union(h, c, other, equals) ==
    LET cc == Concat(h, c, other)
    IN Distinct(cc.heap, Len(cc.heap), equals)

(***************************************************************************)
(* OrderBy.  A key is a value of some type: an integer, a string (its      *)
(* bytes), or a value of a type OrderBy's type switch does not list.       *)
(***************************************************************************)
KeySels == {"self", "half", "name", "flag"}

IntKey(i) == [t |-> "int", i |-> i, s |-> <<>>]
StringKey(s) == [t |-> "string", i |-> 0, s |-> s]
OtherKey(i) == [t |-> "bool", i |-> i, s |-> <<>>]

\* the key selectors the callers of this model pass: the element itself, its
\* half (0 and 1 share a key), a name ("b", "ab", "b": 0 and 2 share a key) and
\* a bool
KeyOf(f, x) ==
    CASE f = "self" -> IntKey(x)
      [] f = "half" -> IntKey(x \div 2)
      [] f = "name" -> StringKey(IF x = 1 THEN <<97, 98>> ELSE <<98>>)
      [] OTHER -> OtherKey(x % 2)

orderByNumerical(a, b, ascending) ==
    IF ascending
    THEN (IF a < b THEN -1 ELSE IF a > b THEN 1 ELSE 0)
    ELSE (IF a > b THEN -1 ELSE IF a < b THEN 1 ELSE 0)

\* strings.Compare: -1, 0 or 1 by the first differing byte, else by length
RECURSIVE StringsCompare(_, _)
StringsCompare(a, b) ==
    IF a = <<>> /\ b = <<>> THEN 0
    ELSE IF a = <<>> THEN -1
    ELSE IF b = <<>> THEN 1
    ELSE IF Head(a) < Head(b) THEN -1
    ELSE IF Head(a) > Head(b) THEN 1
    ELSE StringsCompare(Tail(a), Tail(b))

\* the comparison function OrderBy hands to slices.SortFunc
OrderByCmp(f, ascending, a, b) ==
    LET aValue == KeyOf(f, a)
        bValue == KeyOf(f, b)
    IN CASE aValue.t = "int" -> orderByNumerical(aValue.i, bValue.i, ascending)
         [] aValue.t = "string" ->
              IF ascending THEN StringsCompare(aValue.s, bValue.s)
              ELSE StringsCompare(bValue.s, aValue.s)
         [] OTHER -> 0

Swap(data, i, j) == [data EXCEPT ![i] = data[j], ![j] = data[i]]

\* insertion sort, as slices.SortFunc runs it on a slice of at most twelve
\* elements: element i moves back while it compares below its predecessor
RECURSIVE InsertBack(_, _, _, _)
InsertBack(data, j, f, ascending) ==
    IF j > 1 /\ OrderByCmp(f, ascending, data[j], data[j - 1]) < 0
    THEN InsertBack(Swap(data, j, j - 1), j - 1, f, ascending)
    ELSE data

RECURSIVE insertionSortCmpFunc(_, _, _, _)
insertionSortCmpFunc(data, i, f, ascending) ==
    IF i > Len(data) THEN data
    ELSE insertionSortCmpFunc(InsertBack(data, i, f, ascending), i + 1, f, ascending)

InsertAt(t, i, x) == SubSeq(t, 1, i - 1) \o <<x>> \o SubSeq(t, i, Len(t))

\* x put into t, which is in order, at every place that leaves it in order
InsertSorted(t, x, f, ascending) ==
    { InsertAt(t, i, x) :
        i \in { i \in 1..(Len(t) + 1) :
                  /\ \A k \in 1..(i - 1) : OrderByCmp(f, ascending, t[k], x) <= 0
                  /\ \A k \in i..Len(t) : OrderByCmp(f, ascending, x, t[k]) <= 0 } }

\* every arrangement of slice that is in order
RECURSIVE AnySorted(_, _, _)
AnySorted(slice, f, ascending) ==
    IF slice = <<>> THEN {<<>>}
    ELSE UNION { InsertSorted(t, Head(slice), f, ascending) :
                    t \in AnySorted(Tail(slice), f, ascending) }

\* slices.SortFunc sorts in the order cmp gives and is documented as not
\* guaranteed to be stable.  Up to twelve elements it is an insertion sort;
\* above that it is a pattern-defeating quicksort whose pivot swaps move
\* elements past others that compare equal, and the result is one of the
\* arrangements that are in order
SortFunc(slice, f, ascending) ==
    IF Len(slice) <= 12
    THEN {insertionSortCmpFunc(slice, 2, f, ascending)}
    ELSE AnySorted(slice, f, ascending)

\* OrderBy drains c into a fresh slice, sorts it and wraps it; sorted is what
\* slices.SortFunc left in the slice
OrderBy(h, c, sorted) ==
    Built(Append(h, NewFromSlice(sorted)), ToSlice(h, c).log)

(***************************************************************************)
(* SpecChain: a caller builds a chain of collections over one slice and    *)
(* drains any of them, to the end or stopping early, in any order.         *)
(***************************************************************************)
Ptrs == 1..Len(heap)

\* the collection built last: the one the next combinator is called on
Top == Len(heap)

Did(op, c, n) == [op |-> op, c |-> c, n |-> n, f |-> ""]

InitChain ==
    /\ orig \in SeqsUpTo(MaxSrc)
    /\ heap = <<NewFromSlice(orig)>>
    /\ last = Did("NewFromSlice", 1, 0)
    /\ out = <<>>
    /\ log = <<>>
    /\ NoGoroutines

Construct(op, b) ==
    /\ Len(heap) <= MaxDerived
    /\ heap' = b.heap
    /\ log' = b.log
    /\ out' = <<>>
    /\ last' = Did(op, Len(b.heap), 0)
    /\ UNCHANGED <<orig, gvars>>

Consume(op, c, n, r) ==
    /\ out' = r.out
    /\ log' = r.log
    /\ last' = Did(op, c, n)
    /\ UNCHANGED <<heap, orig, gvars>>

NewWhere == \E f \in Preds : Construct("Where", Where(heap, Top, f))

NewSelect == \E f \in Sels : Construct("Select", Select(heap, Top, f))

NewSkip == \E n \in 1..2 : Construct("Skip", Skip(heap, Top, n))

NewDistinct == \E equals \in {EqStd} : Construct("Distinct", Distinct(heap, Top, equals))

NewConcat == \E other \in Ptrs : Construct("Concat", Concat(heap, Top, other))

NewAppend == \E e \in {2} : Construct("Append", AppendTo(heap, Top, e))

NewPrepend == \E e \in {2} : Construct("Prepend", Prepend(heap, Top, e))

NewPeek == \E f \in Actions : Construct("Peek", Peek(heap, Top, f))

NewReverse == \E c \in {Top} : Construct("Reverse", Reverse(heap, c))

DoToSlice == \E c \in {1, Top} : Consume("ToSlice", c, 0, ToSlice(heap, c))

DoFirst == \E c \in {Top} : Consume("First", c, 0, First(heap, c))

DoElementAt == \E index \in {1} : Consume("ElementAt", Top, index, ElementAt(heap, Top, index))

NextChain ==
    \/ NewWhere
    \/ NewSelect
    \/ NewSkip
    \/ NewDistinct
    \/ NewConcat
    \/ NewAppend
    \/ NewPrepend
    \/ NewPeek
    \/ NewReverse
    \/ DoToSlice
    \/ DoFirst
    \/ DoElementAt

SpecChain == InitChain /\ [][NextChain]_vars

(***************************************************************************)
(* SpecLazy: a caller builds chains of every lazy combinator and drains    *)
(* them.                                                                   *)
(***************************************************************************)
NewReject == \E f \in Preds : Construct("Reject", Reject(heap, Top, f))

NewSelectMany == \E f \in Subs : Construct("SelectMany", SelectMany(heap, Top, f))

NewTake == \E n \in 0..1 : Construct("Take", Take(heap, Top, n))

NewTakeWhile == \E f \in Preds : Construct("TakeWhile", TakeWhile(heap, Top, f))

NewTakeUntil == \E f \in Preds : Construct("TakeUntil", TakeUntil(heap, Top, f))

NewSkipWhile == \E f \in Preds : Construct("SkipWhile", SkipWhile(heap, Top, f))

NewSkipUntil == \E f \in Preds : Construct("SkipUntil", SkipUntil(heap, Top, f))

DrainTop == \E c \in {Top} : Consume("ToSlice", c, 0, ToSlice(heap, c))

NextLazy ==
    \/ NewWhere
    \/ NewReject
    \/ NewSelect
    \/ NewSelectMany
    \/ NewConcat
    \/ NewAppend
    \/ NewPrepend
    \/ NewTake
    \/ NewTakeWhile
    \/ NewTakeUntil
    \/ NewSkip
    \/ NewSkipWhile
    \/ NewSkipUntil
    \/ NewDistinct
    \/ NewPeek
    \/ NewReverse
    \/ DrainTop

SpecLazy == InitChain /\ [][NextLazy]_vars

(***************************************************************************)
(* Claims about chains                                                     *)
(***************************************************************************)
Count(lg, ev) == Cardinality({i \in 1..Len(lg) : lg[i].ev = ev})

\* C1: once the consumer has returned false, the drain does nothing more: no
\* further element is pulled from a source, no caller-supplied function is
\* invoked and the consumer is not invoked again; and First on
\* Where(pred).Select(f) over a slice whose first element satisfies pred pulls
\* exactly one element from the slice.
EarlyStopPropagates ==
    /\ \A i \in 1..Len(log) :
          (log[i].ev = "recv" /\ ~log[i].ok) => i = Len(log)
    /\ ( /\ last.op = "First"
         /\ Len(heap) = 3
         /\ heap[2].op = "where"
         /\ heap[3].op = "select"
         /\ orig # <<>>
         /\ Pred(heap[2].f, orig[1]) )
       => (Count(log, "pull") = 1 /\ out = <<Sel(heap[3].f, orig[1])>>)

\* C1 witness: First has drained Where.Select over a two-element slice whose
\* elements both satisfy the predicate, and pulled one of them
EarlyStopReached ==
    /\ last.op = "First"
    /\ Len(heap) = 3
    /\ heap[2].op = "where"
    /\ heap[3].op = "select"
    /\ Len(orig) = 2
    /\ Pred(heap[2].f, orig[1])
    /\ Pred(heap[2].f, orig[2])
    /\ Count(log, "pull") = 1

LazyOps ==
    {"Where", "Reject", "Select", "SelectMany", "Concat", "Append", "Prepend",
     "Take", "TakeWhile", "TakeUntil", "Skip", "SkipWhile", "SkipUntil",
     "Distinct", "Peek"}

\* C2: calling a lazy combinator pulls no element and invokes no
\* caller-supplied function: the call leaves no event; elements are pulled
\* only by a terminal consumer or a materializing combinator.
ConstructionIsLazy ==
    /\ (last.op \in LazyOps) => log = <<>>
    /\ (Count(log, "pull") > 0) => last.op \in {"ToSlice", "Reverse"}

\* C2 witness: a chain of two lazy combinators stands over a non-empty slice,
\* just built and not yet drained
LazyChainBuilt ==
    /\ last.op = "Peek"
    /\ Len(heap) = 3
    /\ heap[2].op = "where"
    /\ Len(orig) = 2
    /\ log = <<>>

\* C3: whatever has been built over the first collection and drained, to the
\* end or not, a full drain of the first collection yields the slice it was
\* built from.
SourceUnchanged == ToSlice(heap, 1).out = orig

\* C3 witness: the first collection, over two different elements, has been
\* reversed and a collection derived from it drained with an early stop
SourceDrainedAround ==
    /\ Len(heap) = 3
    /\ heap[2].op = "slice"
    /\ Len(orig) = 2
    /\ orig[1] # orig[2]
    /\ last.op = "ElementAt"
    /\ Len(out) = 1

(***************************************************************************)
(* SpecAlg: a caller builds one collection over a slice and applies one    *)
(* operator, or one composition of operators, to it.                       *)
(***************************************************************************)
\* the equality functions passed to the set operators: a == b, same parity,
\* a <= b (not symmetric), never equal, always equal
EqSome ==
    { EqStd,
      {<<a, b>> \in Vals \X Vals : a % 2 = b % 2},
      {<<a, b>> \in Vals \X Vals : a <= b},
      {},
      Vals \X Vals }

InitAlg ==
    /\ orig \in Slices
    /\ heap = <<NewFromSlice(orig)>>
    /\ last = Did("NewFromSlice", 1, 0)
    /\ out = <<>>
    /\ log = <<>>
    /\ NoGoroutines

\* the caller builds something and drains what was built last
BuildAndDrain(op, n, f, h) ==
    LET r == ToSlice(h, Len(h))
    IN /\ heap' = h
       /\ out' = r.out
       /\ log' = r.log
       /\ last' = [Did(op, Len(h), n) EXCEPT !.f = f]
       /\ UNCHANGED <<orig, gvars>>

\* c.Take(n).Concat(c.Skip(n)).ToSlice(): objects 2, 3 and 4
DoTakeSkip ==
    /\ Len(heap) = 1
    /\ \E n \in (-1)..(MaxLen + 1) :
           LET t == Take(heap, 1, n)
               k == Skip(t.heap, 1, n)
           IN BuildAndDrain("TakeSkip", n, "", Concat(k.heap, 2, 3).heap)

\* c.Distinct(equals).Distinct(equals).ToSlice(): objects 2 and 3
DoDistinct ==
    /\ Len(heap) = 1
    /\ \E equals \in EqRels :
           LET d == Distinct(heap, 1, equals)
           IN BuildAndDrain("Distinct", 0, "", Distinct(d.heap, 2, equals).heap)

DoAggregate ==
    /\ Len(heap) = 1
    /\ \E seed \in {0, 1} :
           Consume("Aggregate", 1, seed, Aggregate(heap, 1, seed))

\* the second collection is object 2
DoUnion ==
    /\ Len(heap) = 1
    /\ \E b \in SeqsUpTo(MaxSrc), equals \in EqSome :
           BuildAndDrain("Union", 0, "", Union(Append(heap, NewFromSlice(b)), 1, 2, equals).heap)

DoIntersect ==
    /\ Len(heap) = 1
    /\ \E b \in SeqsUpTo(MaxSrc), equals \in EqSome :
           BuildAndDrain("Intersect", 0, "", Intersect(Append(heap, NewFromSlice(b)), 1, 2, equals).heap)

DoExcept ==
    /\ Len(heap) = 1
    /\ \E b \in SeqsUpTo(MaxSrc), equals \in EqSome :
           BuildAndDrain("Except", 0, "", Except(Append(heap, NewFromSlice(b)), 1, 2, equals).heap)

DoOrderBy ==
    /\ Len(heap) = 1
    /\ \E f \in KeySels, ascending \in BOOLEAN :
           \E sorted \in SortFunc(ToSlice(heap, 1).out, f, ascending) :
               BuildAndDrain("OrderBy", IF ascending THEN 1 ELSE 0, f, OrderBy(heap, 1, sorted).heap)

NextAlg ==
    \/ DoTakeSkip
    \/ DoDistinct
    \/ DoAggregate
    \/ DoUnion
    \/ DoIntersect
    \/ DoExcept
    \/ DoOrderBy

SpecAlg == InitAlg /\ [][NextAlg]_vars

(***************************************************************************)
(* Claims about operators                                                  *)
(***************************************************************************)
Prefix(s, n) == SubSeq(s, 1, Min2(Max2(n, 0), Len(s)))
Suffix(s, n) == SubSeq(s, Min2(Max2(n, 0), Len(s)) + 1, Len(s))

\* C4: Take(n) yields the first min(n, len) elements of S and Skip(n) the
\* others, and for 0 <= n <= len Take(S, n).Concat(Skip(S, n)) drained to a
\* slice is S.
TakeSkipComplement ==
    (last.op = "TakeSkip") =>
        /\ (last.n >= 0) => ToSlice(heap, 2).out = Prefix(orig, last.n)
        /\ (last.n >= 0) => ToSlice(heap, 3).out = Suffix(orig, last.n)
        /\ (0 <= last.n /\ last.n <= Len(orig)) => out = orig

\* C4 witness: a slice of three elements was cut after its first element
TakeSkipReached ==
    /\ last.op = "TakeSkip"
    /\ last.n = 1
    /\ Len(orig) = 3
    /\ orig[1] # orig[2]
    /\ Len(out) = 3

\* C5: under any equality function, Distinct of Distinct of S yields what
\* Distinct of S yields, and no element of it is equal to an earlier one.
DistinctIdempotent ==
    (last.op = "Distinct") =>
        LET once == ToSlice(heap, 2).out
            equals == heap[2].equals
        IN /\ out = once
           /\ \A i, j \in 1..Len(once) : i < j => <<once[j], once[i]>> \notin equals

\* C5 witness: under an equality function that is neither symmetric nor
\* reflexive, Distinct dropped an element of a three-element slice
DistinctReached ==
    /\ last.op = "Distinct"
    /\ Len(orig) = 3
    /\ Len(out) = 2
    /\ \E a, b \in Vals : <<a, b>> \in heap[2].equals /\ <<b, a>> \notin heap[2].equals
    /\ \E a \in Vals : <<a, a>> \notin heap[2].equals

\* the left fold, by its last step
RECURSIVE FoldLeft(_, _)
FoldLeft(seed, s) ==
    IF s = <<>> THEN seed
    ELSE Accumulate(FoldLeft(seed, SubSeq(s, 1, Len(s) - 1)), s[Len(s)])

\* C6: Aggregate returns f(...f(f(seed, x1), x2)..., xk), calls the accumulator
\* once per element, in source order, and for an empty source returns the seed
\* without calling it.
AggregateIsLeftFold ==
    (last.op = "Aggregate") =>
        /\ out = <<FoldLeft(last.n, orig)>>
        /\ Len(log) = 2 * Len(orig)
        /\ \A i \in 1..Len(orig) :
              /\ log[2 * i - 1] = PullEv(1, orig[i])
              /\ log[2 * i] = CallEv(0, orig[i])
        /\ (orig = <<>>) => (out = <<last.n>> /\ log = <<>>)

\* C6 witness: Aggregate folded three elements, not all the same, from a
\* seed other than zero
AggregateReached ==
    /\ last.op = "Aggregate"
    /\ last.n = 1
    /\ Len(orig) = 3
    /\ orig[1] # orig[3]
    /\ Count(log, "call") = 3

Equal(equals, a, b) == <<a, b>> \in equals \/ <<b, a>> \in equals

NoDuplicates(equals, s) ==
    \A i, j \in 1..Len(s) : i # j => ~Equal(equals, s[i], s[j])

Disjoint(equals, s, t) ==
    \A i \in 1..Len(s), j \in 1..Len(t) : ~Equal(equals, s[i], t[j])

SetAlgebraReached(op) ==
    /\ last.op = op
    /\ Len(orig) = 2
    /\ Len(heap[2].data) >= 1
    /\ NoDuplicates(heap[Len(heap)].equals, orig)
    /\ NoDuplicates(heap[Len(heap)].equals, heap[2].data)
    /\ Disjoint(heap[Len(heap)].equals, orig, heap[2].data)

LongLen == 13

LongSlices ==
    { [i \in 1..LongLen |-> IF i = j THEN 1 ELSE IF i = k THEN 2 ELSE 0] :
        j \in 1..LongLen, k \in (LongLen - 1)..LongLen }

InitSort ==
    /\ orig \in Slices \cup LongSlices
    /\ heap = <<NewFromSlice(orig)>>
    /\ last = Did("NewFromSlice", 1, 0)
    /\ out = <<>>
    /\ log = <<>>
    /\ NoGoroutines

NextSort == DoOrderBy

SpecSort == InitSort /\ [][NextSort]_vars

Only(s, a, b) == SelectSeq(s, LAMBDA x : x \in {a, b})

\* C8, as claimed: OrderBy yields the source's elements in key order, and any
\* two elements whose keys compare equal are in the result in the relative
\* order they have in the source.
OrderByIsStable ==
    (last.op = "OrderBy") =>
        /\ Len(out) = Len(orig)
        /\ \A v \in Vals : Len(Only(out, v, v)) = Len(Only(orig, v, v))
        /\ \A i \in 1..(Len(out) - 1) :
              OrderByCmp(last.f, last.n = 1, out[i], out[i + 1]) <= 0
        /\ \A a, b \in Vals :
              (OrderByCmp(last.f, last.n = 1, a, b) = 0)
              => Only(out, a, b) = Only(orig, a, b)

\* C8, what holds: the result is the source rearranged into key order, and
\* the relative order of elements with equal keys is kept when the source has
\* at most twelve elements.
OrderByIsStableWhenShort ==
    (last.op = "OrderBy") =>
        /\ Len(out) = Len(orig)
        /\ \A v \in Vals : Len(Only(out, v, v)) = Len(Only(orig, v, v))
        /\ \A i \in 1..(Len(out) - 1) :
              OrderByCmp(last.f, last.n = 1, out[i], out[i + 1]) <= 0
        /\ (Len(orig) <= 12) =>
              \A a, b \in Vals :
                 (OrderByCmp(last.f, last.n = 1, a, b) = 0)
                 => Only(out, a, b) = Only(orig, a, b)

(***************************************************************************)
(* Goroutines and unbuffered channels.  A producer goroutine ranges over   *)
(* a slice-backed collection and sends each element on a channel; a send   *)
(* on an unbuffered channel completes together with the receive that takes *)
(* its value, so a producer at "send" stays there until its receiver       *)
(* arrives.  Labels of a producer: "new" (not started), "range" (about to  *)
(* pull the next element), "send" (blocked in ch <- v), "close" (the loop  *)
(* is over, the deferred close is next), "done".                           *)
(***************************************************************************)
\* the value producer g, at "send", is sending: the element it pulled last
Sending(g, c) == heap[c].data[idx[g]]

\* for v := range c, over a slice: pull the next element and go to send it,
\* or leave the loop
GenRange(g, c) ==
    /\ g \in DOMAIN pc
    /\ pc[g] = "range"
    /\ IF idx[g] < Len(heap[c].data)
       THEN /\ idx' = [idx EXCEPT ![g] = idx[g] + 1]
            /\ pc' = [pc EXCEPT ![g] = "send"]
       ELSE /\ pc' = [pc EXCEPT ![g] = "close"]
            /\ UNCHANGED idx
    /\ UNCHANGED <<heap, orig, last, out, log, closed, held, work, grp>>

\* a producer that returns without closing its channel
GenReturn(g, ch) ==
    /\ g \in DOMAIN pc
    /\ pc[g] = "close"
    /\ pc' = [pc EXCEPT ![g] = "done"]
    /\ UNCHANGED <<heap, orig, last, out, log, idx, closed, held, work, grp>>

\* defer close(ch): runs as the goroutine's function returns
GenClose(g, ch) ==
    /\ g \in DOMAIN pc
    /\ pc[g] = "close"
    /\ closed' = [closed EXCEPT ![ch] = TRUE]
    /\ pc' = [pc EXCEPT ![g] = "done"]
    /\ UNCHANGED <<heap, orig, last, out, log, idx, held, work, grp>>

(***************************************************************************)
(* SpecZip: Zip over two slice-backed collections, objects 1 and 2; the    *)
(* Zip collection is object 3.  Its consumer takes every result (ToSlice)  *)
(* or stops at its last.n-th result (its yield returns false).             *)
(***************************************************************************)
Zippers == {"pair"}

\* the zipper the callers of this model pass: the pair of its arguments
Zipper(f, v1, v2) == <<v1, v2>>

Zip(h, c1, c2, zipper) ==
    Built(Append(h, Closure("zip", c1, c2, 0, zipper, 0, {})), <<>>)

InitZip ==
    /\ orig \in SeqsUpTo(MaxSrc)
    /\ \E b \in SeqsUpTo(MaxSrc) : heap = <<NewFromSlice(orig), NewFromSlice(b)>>
    /\ last = Did("NewFromSlice", 2, 0)
    /\ out = <<>>
    /\ log = <<>>
    /\ NoGoroutines

NewZip ==
    /\ Len(heap) = 2
    /\ \E zipper \in Zippers :
           LET b == Zip(heap, 1, 2, zipper)
           IN /\ heap' = b.heap
              /\ log' = b.log
              /\ out' = <<>>
              /\ last' = Did("Zip", 3, 0)
              /\ UNCHANGED <<orig, gvars>>

\* the consumer calls the Zip collection: the channels are made and the two
\* goroutines started; limit is the number of results at which the consumer's
\* yield returns false, 0 for a consumer that takes them all
ZipCall ==
    /\ last.op = "Zip"
    /\ \E limit \in 0..MaxSrc :
           last' = Did("ZipCall", 3, limit)
    /\ pc' = [zip |-> "recv1", gen1 |-> "range", gen2 |-> "range"]
    /\ idx' = [gen1 |-> 0, gen2 |-> 0]
    /\ closed' = [iter1 |-> FALSE, iter2 |-> FALSE]
    /\ held' = [v1 |-> 0, v2 |-> 0]
    /\ UNCHANGED <<heap, orig, out, log, work, grp>>

Zipping == "zip" \in DOMAIN pc

\* v1, ok1 := <-iter1 with a value: the first producer's send completes
ZipRecv1 ==
    /\ Zipping
    /\ pc.zip = "recv1"
    /\ pc.gen1 = "send"
    /\ held' = [held EXCEPT !.v1 = Sending("gen1", heap[3].src)]
    /\ pc' = [pc EXCEPT !.zip = "recv2", !.gen1 = "range"]
    /\ UNCHANGED <<heap, orig, last, out, log, idx, closed, work, grp>>

\* v1, ok1 := <-iter1 on the closed channel: break, and the function returns
ZipRecv1Closed ==
    /\ Zipping
    /\ pc.zip = "recv1"
    /\ closed.iter1
    /\ pc' = [pc EXCEPT !.zip = "done"]
    /\ UNCHANGED <<heap, orig, last, out, log, idx, closed, held, work, grp>>

\* v2, ok2 := <-iter2 with a value
ZipRecv2 ==
    /\ Zipping
    /\ pc.zip = "recv2"
    /\ pc.gen2 = "send"
    /\ held' = [held EXCEPT !.v2 = Sending("gen2", heap[3].other)]
    /\ pc' = [pc EXCEPT !.zip = "yield", !.gen2 = "range"]
    /\ UNCHANGED <<heap, orig, last, out, log, idx, closed, work, grp>>

\* a Zip loop that, finding iter2 closed, still yields what it holds
ZipRecv2ClosedYields ==
    /\ Zipping
    /\ pc.zip = "recv2"
    /\ closed.iter2
    /\ pc' = [pc EXCEPT !.zip = "yield"]
    /\ UNCHANGED <<heap, orig, last, out, log, idx, closed, held, work, grp>>

\* v2, ok2 := <-iter2 on the closed channel: break
ZipRecv2Closed ==
    /\ Zipping
    /\ pc.zip = "recv2"
    /\ closed.iter2
    /\ pc' = [pc EXCEPT !.zip = "done"]
    /\ UNCHANGED <<heap, orig, last, out, log, idx, closed, held, work, grp>>

\* if !yield(zipper(v1, v2)) { return }
ZipYield ==
    /\ Zipping
    /\ pc.zip = "yield"
    /\ out' = Append(out, Zipper(heap[3].f, held.v1, held.v2))
    /\ pc' = [pc EXCEPT !.zip = IF Len(out') = last.n THEN "done" ELSE "recv1"]
    /\ UNCHANGED <<heap, orig, last, log, idx, closed, held, work, grp>>

NextZip ==
    \/ NewZip
    \/ ZipCall
    \/ GenRange("gen1", 1)
    \/ GenRange("gen2", 2)
    \/ GenClose("gen1", "iter1")
    \/ GenClose("gen2", "iter2")
    \/ ZipRecv1
    \/ ZipRecv1Closed
    \/ ZipRecv2
    \/ ZipRecv2Closed
    \/ ZipYield

SpecZip == InitZip /\ [][NextZip]_vars

\* C9: draining Zip over slice-backed a and b yields min(len(a), len(b))
\* results, the i-th being zipper(a[i], b[i]), in order, however the two
\* producer goroutines interleave: every result yielded so far is the pair at
\* its position, the loop waits only for a producer that will send or close,
\* and when the loop of a consumer that takes every result has returned, the
\* results are min(len(a), len(b)).
ZipPairsPositionally ==
    (last.op = "ZipCall") =>
        LET a == heap[1].data
            b == heap[2].data
        IN /\ Len(out) <= Min2(Len(a), Len(b))
           /\ \A i \in 1..Len(out) : out[i] = Zipper(heap[3].f, a[i], b[i])
           /\ (pc.zip = "recv1") => (pc.gen1 # "done" \/ closed.iter1)
           /\ (pc.zip = "recv2") => (pc.gen2 # "done" \/ closed.iter2)
           /\ (pc.zip = "done" /\ last.n = 0) => Len(out) = Min2(Len(a), Len(b))

\* C9 witness: a consumer that takes every result has drained Zip over two
\* elements and one element, and got one result
ZipDrained ==
    /\ last.op = "ZipCall"
    /\ last.n = 0
    /\ pc.zip = "done"
    /\ Len(heap[1].data) = 2
    /\ Len(heap[2].data) = 1
    /\ heap[1].data[1] # heap[2].data[1]
    /\ Len(out) = 1

(***************************************************************************)
(* SpecToChannel: ToChannel over a slice-backed collection, object 1, and  *)
(* a consumer that receives from the returned channel until it is closed   *)
(* or, for last.n > 0, walks away after its last.n-th element.             *)
(***************************************************************************)
InitToChannel ==
    /\ orig \in Slices
    /\ heap = <<NewFromSlice(orig)>>
    /\ last = Did("NewFromSlice", 1, 0)
    /\ out = <<>>
    /\ log = <<>>
    /\ NoGoroutines

\* ToChannel makes the channel, starts the producer goroutine and returns the
\* channel to the consumer
ToChannel ==
    /\ last.op = "NewFromSlice"
    /\ \E limit \in 0..MaxLen :
           last' = Did("ToChannel", 1, limit)
    /\ pc' = [producer |-> "range", consumer |-> "recv"]
    /\ idx' = [producer |-> 0]
    /\ closed' = [ch |-> FALSE]
    /\ UNCHANGED <<heap, orig, out, log, held, work, grp>>

Receiving == "consumer" \in DOMAIN pc

\* the consumer's v, ok := <-ch with a value: ch <- item completes
ChanRecv ==
    /\ Receiving
    /\ pc.consumer = "recv"
    /\ pc.producer = "send"
    /\ out' = Append(out, Sending("producer", 1))
    /\ pc' = [pc EXCEPT !.producer = "range",
                        !.consumer = IF Len(out') = last.n THEN "gone" ELSE "recv"]
    /\ UNCHANGED <<heap, orig, last, log, idx, closed, held, work, grp>>

\* the consumer's receive on the closed channel: the consumer is through
ChanRecvClosed ==
    /\ Receiving
    /\ pc.consumer = "recv"
    /\ closed.ch
    /\ pc' = [pc EXCEPT !.consumer = "done"]
    /\ UNCHANGED <<heap, orig, last, out, log, idx, closed, held, work, grp>>

NextToChannel ==
    \/ ToChannel
    \/ GenRange("producer", 1)
    \/ GenClose("producer", "ch")
    \/ ChanRecv
    \/ ChanRecvClosed

SpecToChannel == InitToChannel /\ [][NextToChannel]_vars

\* a goroutine that can take a step is scheduled, and a consumer that is
\* receiving keeps receiving
SpecToChannelFair ==
    /\ SpecToChannel
    /\ WF_vars(GenRange("producer", 1))
    /\ WF_vars(GenClose("producer", "ch"))
    /\ WF_vars(ChanRecv)
    /\ WF_vars(ChanRecvClosed)

IsPrefix(s, t) == Len(s) <= Len(t) /\ s = SubSeq(t, 1, Len(s))

\* C10: a consumer that receives from the channel ToChannel returned until it
\* is closed receives the collection's elements, each once, in source order,
\* and the channel is then closed and the producer goroutine has terminated:
\* what has been received is always the elements up to some position, a
\* consumer that found the channel closed has received them all from a
\* producer that is through, and a consumer that receives until the channel
\* is closed does find it closed.
ToChannelDeliversAndCloses ==
    /\ [](Receiving =>
            /\ IsPrefix(out, orig)
            /\ (pc.consumer = "done") =>
                  (out = orig /\ closed.ch /\ pc.producer = "done"))
    /\ ((Receiving /\ last.n = 0) ~> (Receiving /\ pc.consumer = "done"))

\* C10 witness: the consumer has received three elements, not all the same,
\* and then found the channel closed
ToChannelDrained ==
    /\ Receiving
    /\ last.n = 0
    /\ pc.consumer = "done"
    /\ Len(out) = 3
    /\ out[1] # out[3]

\* C11, as claimed: when the consumer stops receiving before every element
\* was delivered, the producer goroutine eventually terminates: it does not
\* stay blocked in its send.
ToChannelProducerTerminates ==
    (Receiving /\ pc.consumer = "gone") ~> (Receiving /\ pc.producer = "done")

\* C11: the state the producer stays in: the consumer is gone after one of
\* three elements and the producer is blocked sending the second
ToChannelProducerBlocked ==
    /\ Receiving
    /\ pc.consumer = "gone"
    /\ pc.producer = "send"
    /\ Len(orig) = 3
    /\ Len(out) = 1
    /\ idx.producer = 2

(***************************************************************************)
(* SpecParallel: ParallelForEach over a slice-backed collection, object 1. *)
(* The calling goroutine ("main") ranges over the collection and hands     *)
(* each element to g.Go, which waits for one of the group's limit slots,   *)
(* starts a goroutine and returns; then it waits in g.Wait.  Goroutine j   *)
(* carries element j.  Its labels: "select" (started, about to look at     *)
(* ctx.Done), "action" (action is running), "returned" (its function has   *)
(* returned res, the group has not yet taken it), "done".  work[j].at      *)
(* notes what had happened when action was invoked for element j.          *)
(***************************************************************************)
MaxConc == 2

NoError == [kind |-> "nil", of |-> 0]

\* context.Canceled, what ctx.Err() is once ctx is done
Canceled == [kind |-> "canceled", of |-> 0]

\* the error the action returns for element j
ActionError(j) == [kind |-> "error", of |-> j]

NotInvoked == [invoked |-> FALSE, afterError |-> FALSE, afterCancel |-> FALSE]

\* the goroutines that hold one of the group's slots
Active == {j \in 1..Len(work) : work[j].pc # "done"}

\* the invocations of action that are running
Running == {j \in 1..Len(work) : work[j].pc = "action"}

\* one slice of each length: which elements a slice holds does not matter
\* to ParallelForEach, how many does
Counted == {[i \in 1..n |-> (i - 1) % Cardinality(Vals)] : n \in 0..MaxLen}

InitParallel ==
    /\ orig \in Counted
    /\ heap = <<NewFromSlice(orig)>>
    /\ last = Did("NewFromSlice", 1, 0)
    /\ out = <<>>
    /\ log = <<>>
    /\ NoGoroutines

\* the call: concurrency <= 0 stands for the number of CPUs; the group and
\* its context are made
ParallelForEach ==
    /\ last.op = "NewFromSlice"
    /\ \E concurrency \in 0..MaxConc, numCPU \in 1..MaxConc :
          /\ (concurrency > 0) => numCPU = 1
          /\ last' = Did("ParallelForEach", 1, concurrency)
          /\ grp' = [limit |-> IF concurrency <= 0 THEN numCPU ELSE concurrency,
                     err |-> NoError, done |-> FALSE, cancelled |-> FALSE,
                     first |-> NoError, ret |-> NoError]
    /\ pc' = [main |-> "range"]
    /\ idx' = [main |-> 0]
    /\ work' = <<>>
    /\ UNCHANGED <<heap, orig, out, log, closed, held>>

InParallel == "main" \in DOMAIN pc

\* for item := range c: the next element, or the end of the loop
PfeRange ==
    /\ InParallel
    /\ pc.main = "range"
    /\ IF idx.main < Len(heap[1].data)
       THEN /\ idx' = [idx EXCEPT !.main = idx.main + 1]
            /\ pc' = [pc EXCEPT !.main = "go"]
       ELSE /\ pc' = [pc EXCEPT !.main = "wait"]
            /\ UNCHANGED idx
    /\ UNCHANGED <<heap, orig, last, out, log, closed, held, work, grp>>

\* a g.Go that does not wait for a slot
PfeGoUnlimited ==
    /\ InParallel
    /\ pc.main = "go"
    /\ work' = Append(work, [pc |-> "select", v |-> heap[1].data[idx.main],
                             res |-> NoError, at |-> NotInvoked])
    /\ pc' = [pc EXCEPT !.main = "range"]
    /\ UNCHANGED <<heap, orig, last, out, log, idx, closed, held, grp>>

\* g.Go(func): takes a slot when fewer than limit goroutines hold one, and
\* starts the goroutine
PfeGo ==
    /\ InParallel
    /\ pc.main = "go"
    /\ Cardinality(Active) < grp.limit
    /\ work' = Append(work, [pc |-> "select", v |-> heap[1].data[idx.main],
                             res |-> NoError, at |-> NotInvoked])
    /\ pc' = [pc EXCEPT !.main = "range"]
    /\ UNCHANGED <<heap, orig, last, out, log, idx, closed, held, grp>>

\* select: ctx done -> return ctx.Err(); default -> action(ctx, currentItem)
PfeSelect(j) ==
    /\ InParallel
    /\ j \in 1..Len(work)
    /\ work[j].pc = "select"
    /\ work' = [work EXCEPT ![j] =
                  IF grp.done
                  THEN [@ EXCEPT !.pc = "returned", !.res = Canceled]
                  ELSE [@ EXCEPT !.pc = "action",
                                 !.at = [invoked |-> TRUE,
                                         afterError |-> grp.first # NoError,
                                         afterCancel |-> grp.cancelled]]]
    /\ UNCHANGED <<heap, orig, last, out, log, pc, idx, closed, held, grp>>

\* the action returns: nil, an error of its own, or, when it finds ctx done,
\* ctx.Err()
PfeActionReturns(j) ==
    /\ InParallel
    /\ j \in 1..Len(work)
    /\ work[j].pc = "action"
    /\ \E res \in {NoError, ActionError(j)} \cup (IF grp.done THEN {Canceled} ELSE {}) :
          /\ work' = [work EXCEPT ![j] = [@ EXCEPT !.pc = "returned", !.res = res]]
          /\ grp' = [grp EXCEPT !.first =
                        IF @ = NoError /\ res.kind = "error" THEN res ELSE @]
    /\ UNCHANGED <<heap, orig, last, out, log, pc, idx, closed, held>>

\* the group takes what the goroutine's function returned: the first error
\* it is handed becomes g.err and cancels ctx; the slot is given back
PfeDone(j) ==
    /\ InParallel
    /\ j \in 1..Len(work)
    /\ work[j].pc = "returned"
    /\ work' = [work EXCEPT ![j] = [@ EXCEPT !.pc = "done"]]
    /\ grp' = IF work[j].res # NoError /\ grp.err = NoError
              THEN [grp EXCEPT !.err = work[j].res, !.done = TRUE]
              ELSE grp
    /\ UNCHANGED <<heap, orig, last, out, log, pc, idx, closed, held>>

\* the caller's context is cancelled from outside while the call is under way
PfeCancel ==
    /\ InParallel
    /\ pc.main # "returned"
    /\ ~grp.cancelled
    /\ grp' = [grp EXCEPT !.cancelled = TRUE, !.done = TRUE]
    /\ UNCHANGED <<heap, orig, last, out, log, pc, idx, closed, held, work>>

\* a g.Wait that does not wait
PfeWaitNot ==
    /\ InParallel
    /\ pc.main = "wait"
    /\ grp' = [grp EXCEPT !.ret = grp.err, !.done = TRUE]
    /\ pc' = [pc EXCEPT !.main = "returned"]
    /\ UNCHANGED <<heap, orig, last, out, log, idx, closed, held, work>>

\* return g.Wait(): when every goroutine is done, g.err
PfeWait ==
    /\ InParallel
    /\ pc.main = "wait"
    /\ Active = {}
    /\ grp' = [grp EXCEPT !.ret = grp.err, !.done = TRUE]
    /\ pc' = [pc EXCEPT !.main = "returned"]
    /\ UNCHANGED <<heap, orig, last, out, log, idx, closed, held, work>>

NextParallel ==
    \/ ParallelForEach
    \/ PfeRange
    \/ PfeGo
    \/ \E j \in DOMAIN work : PfeSelect(j)
    \/ \E j \in DOMAIN work : PfeActionReturns(j)
    \/ \E j \in DOMAIN work : PfeDone(j)
    \/ PfeCancel
    \/ PfeWait

SpecParallel == InitParallel /\ [][NextParallel]_vars

\* C12: for concurrency k >= 1 the group's limit is k, and in every reachable
\* state at most k invocations of action are running.
ConcurrencyBounded ==
    InParallel =>
        /\ (last.n >= 1) => grp.limit = last.n
        /\ Cardinality(Running) <= grp.limit

\* C12 witness: with concurrency 2 and three elements, two invocations are
\* running and the calling goroutine is in g.Go with the third element
ConcurrencyFull ==
    /\ InParallel
    /\ last.n = 2
    /\ Len(orig) = 3
    /\ Cardinality(Running) = 2
    /\ pc.main = "go"
    /\ idx.main = 3

\* C13: when no invocation has returned an error and the context was not
\* cancelled, a ParallelForEach that has returned has started one goroutine
\* per element, in each of them action was invoked with that element, all of
\* them are through, and nil was returned.
ExactlyOnce ==
    (/\ InParallel
     /\ pc.main = "returned"
     /\ ~grp.cancelled
     /\ \A j \in DOMAIN work : work[j].res.kind # "error")
    => /\ Len(work) = Len(orig)
       /\ \A j \in DOMAIN work :
             /\ work[j].v = orig[j]
             /\ work[j].at.invoked
             /\ work[j].pc = "done"
       /\ grp.ret = NoError

\* C13 witness: ParallelForEach with concurrency 2 has returned from three
\* elements without an error or a cancellation
ParallelReturned ==
    /\ InParallel
    /\ pc.main = "returned"
    /\ last.n = 2
    /\ Len(orig) = 3
    /\ Len(work) = 3
    /\ ~grp.cancelled
    /\ grp.first = NoError

\* C14, as claimed: once an invocation of action has returned an error no
\* invocation of action is started, and without a cancellation from outside
\* the call returns the first error an action returned.
FirstErrorStopsAndReturns ==
    InParallel =>
        /\ \A j \in DOMAIN work : ~work[j].at.afterError
        /\ (pc.main = "returned" /\ ~grp.cancelled /\ grp.first # NoError)
           => grp.ret = grp.first

\* C14: the state that refutes it: with concurrency 2, action was invoked for
\* the second element after the invocation for the first had returned its
\* error
StartedAfterError ==
    /\ InParallel
    /\ last.n = 2
    /\ Len(work) = 2
    /\ work[1].res = ActionError(1)
    /\ work[2].at.afterError

\* C15, as claimed: after the context was cancelled from outside no
\* invocation of action is started, and the call returns the context's
\* cancellation error.
CancellationStopsAndReturns ==
    InParallel =>
        /\ \A j \in DOMAIN work : ~work[j].at.afterCancel
        /\ (pc.main = "returned" /\ grp.cancelled) => grp.ret = Canceled

\* C15: the state that refutes it: the context was cancelled while the
\* invocations for both elements were running, both returned nil, and
\* ParallelForEach returned nil
CancelledReturnsNil ==
    /\ InParallel
    /\ pc.main = "returned"
    /\ grp.cancelled
    /\ Len(work) = 2
    /\ \A j \in DOMAIN work : work[j].at.invoked /\ work[j].res = NoError
    /\ grp.ret = NoError

(***************************************************************************)
(* SpecPopShift: Pop and Shift, any number of times, on a slice-backed     *)
(* collection, object 1.  last.f is the error returned, "" for nil.        *)
(***************************************************************************)
\* what Pop and Shift return, and the heap they leave
Removed(h, v, err, lg) == [heap |-> h, out |-> <<v>>, err |-> err, log |-> lg]

\* a Pop that returns the last element and leaves the collection as it was
PopKeeps(h, c) ==
    LET r == ToSlice(h, c)
        s == r.out
    IN IF Len(s) = 0
       THEN Removed(h, 0, "ErrEmptyCollection", r.log)
       ELSE Removed(h, s[Len(s)], "", r.log)

\* Pop: s := c.ToSlice(); the collection c points to is replaced by one over
\* s[:len(s)-1]; the zero value goes with the error
PopFrom(h, c, r) ==
    IF Len(r.out) = 0
    THEN Removed(h, 0, "ErrEmptyCollection", r.log)
    ELSE Removed([h EXCEPT ![c] = NewFromSlice(SubSeq(r.out, 1, Len(r.out) - 1))],
                 r.out[Len(r.out)], "", r.log)

Pop(h, c) == PopFrom(h, c, ToSlice(h, c))

\* Shift: the same with s[0] and s[1:]
ShiftFrom(h, c, r) ==
    IF Len(r.out) = 0
    THEN Removed(h, 0, "ErrEmptyCollection", r.log)
    ELSE Removed([h EXCEPT ![c] = NewFromSlice(SubSeq(r.out, 2, Len(r.out)))],
                 r.out[1], "", r.log)

Shift(h, c) == ShiftFrom(h, c, ToSlice(h, c))

Remove(op, r) ==
    /\ heap' = r.heap
    /\ out' = r.out
    /\ log' = r.log
    /\ last' = [Did(op, 1, 0) EXCEPT !.f = r.err]
    /\ UNCHANGED <<orig, gvars>>

DoPop == Remove("Pop", Pop(heap, 1))

DoShift == Remove("Shift", Shift(heap, 1))

NextPopShift ==
    \/ DoPop
    \/ DoShift

SpecPopShift == InitAlg /\ [][NextPopShift]_vars

\* what Pop (last = TRUE) or Shift (last = FALSE) must do to a collection
\* that yields before: the element returned, the error, what it yields after
RemovedFrom(before, after, isLast) ==
    IF before = <<>>
    THEN last'.f = "ErrEmptyCollection" /\ after = <<>>
    ELSE /\ last'.f = ""
         /\ Len(after) = Len(before) - 1
         /\ out' = <<IF isLast THEN before[Len(before)] ELSE before[1]>>
         /\ after = IF isLast THEN SubSeq(before, 1, Len(before) - 1)
                    ELSE SubSeq(before, 2, Len(before))

\* C16: on a non-empty collection Pop returns the last element and Shift the
\* first, with a nil error, and the collection then yields the former
\* elements without that one, in order, one fewer; on an empty collection
\* both return ErrEmptyCollection and leave it empty; so the contents are
\* always a contiguous sub-range of the original slice.
PopShiftRemoveEnds ==
    /\ [](\E a \in 1..(Len(orig) + 1), b \in 0..Len(orig) :
             ToSlice(heap, 1).out = SubSeq(orig, a, b))
    /\ [][/\ (last'.op = "Pop") =>
                RemovedFrom(ToSlice(heap, 1).out, ToSlice(heap', 1).out, TRUE)
          /\ (last'.op = "Shift") =>
                RemovedFrom(ToSlice(heap, 1).out, ToSlice(heap', 1).out, FALSE)]_vars

\* C16 witness: after a Pop and a Shift on three elements, the first and the
\* last different, the middle one is left, and Shift has returned the first
PopShiftMiddleLeft ==
    /\ last.op = "Shift"
    /\ last.f = ""
    /\ Len(orig) = 3
    /\ orig[1] # orig[3]
    /\ out = <<orig[1]>>
    /\ ToSlice(heap, 1).out = <<orig[2]>>

(***************************************************************************)
(* SpecParts: operators that group or cut a slice-backed collection,       *)
(* object 1.                                                               *)
(***************************************************************************)
\* a GroupBy that starts a key's group afresh at every element
GroupByBodyReplaces(groups, f, v) ==
    LET key == KeyOf(f, v)
    IN IF key \in DOMAIN groups
       THEN [groups EXCEPT ![key] = <<v>>]
       ELSE groups @@ (key :> <<v>>)

\* GroupBy's loop body; groups maps a key to what its collection holds:
\* groups[key] = NewFromSlice(append(group.ToSlice(), v)), or a new group
GroupByBody(groups, f, v) ==
    LET key == KeyOf(f, v)
    IN IF key \in DOMAIN groups
       THEN [groups EXCEPT ![key] = Append(@, v)]
       ELSE groups @@ (key :> <<v>>)

\* for v := range c, over the elements s that c yields
RECURSIVE GroupByLoop(_, _, _, _)
GroupByLoop(groups, f, s, i) ==
    IF i > Len(s) THEN groups
    ELSE GroupByLoop(GroupByBody(groups, f, s[i]), f, s, i + 1)

\* the map returned is out; the loop never stops, so c is drained as by ToSlice
GroupByOver(f, r) == [out |-> GroupByLoop(<<>>, f, r.out, 1), ok |-> TRUE, log |-> r.log]

GroupBy(h, c, f) == GroupByOver(f, ToSlice(h, c))

DoGroupBy ==
    /\ Len(heap) = 1
    /\ \E f \in KeySels :
          LET r == GroupBy(heap, 1, f)
          IN /\ out' = r.out
             /\ log' = r.log
             /\ last' = [Did("GroupBy", 1, 0) EXCEPT !.f = f]
             /\ UNCHANGED <<heap, orig, gvars>>

\* a Chunk without the rest that does not fill a chunk
ChunkDropsRest(chunks, chunk) == chunks

\* Chunk's loop: v joins the chunk under way; a chunk of size elements is
\* closed and a new one begun
RECURSIVE ChunkLoop(_, _, _, _, _)
ChunkLoop(chunks, chunk, size, s, i) ==
    IF i > Len(s) THEN [chunks |-> chunks, chunk |-> chunk]
    ELSE LET filled == Append(chunk, s[i])
         IN IF Len(filled) = size
            THEN ChunkLoop(Append(chunks, filled), <<>>, size, s, i + 1)
            ELSE ChunkLoop(chunks, filled, size, s, i + 1)

\* after the loop: if len(chunk) > 0 { chunks = append(chunks, ...) }
ChunkRest(chunks, chunk) ==
    IF Len(chunk) > 0 THEN Append(chunks, chunk) ELSE chunks

\* the chunks returned are out, each by the elements its collection holds; the
\* loop never stops, so c is drained as by ToSlice
ChunkOver(size, r) ==
    LET l == ChunkLoop(<<>>, <<>>, size, r.out, 1)
    IN [out |-> ChunkRest(l.chunks, l.chunk), ok |-> TRUE, log |-> r.log]

Chunk(h, c, size) == ChunkOver(size, ToSlice(h, c))

DoChunk ==
    /\ Len(heap) = 1
    /\ \E size \in (-1)..(MaxLen + 1) :
          Consume("Chunk", 1, size, Chunk(heap, 1, size))

\* SingleOrError, and with it Single, on the collection; last.f is the error
SingleReturned(r) ==
    /\ out' = r.out
    /\ log' = r.log
    /\ last' = [Did("Single", 1, IF r.ok THEN 1 ELSE 0) EXCEPT !.f = r.err]
    /\ UNCHANGED <<heap, orig, gvars>>

DoSingle ==
    /\ Len(heap) = 1
    /\ SingleReturned(SingleOrError(heap, 1))

\* RandomN after c.ToSlice(): draws are the indices cryptorand.Int returned,
\* one per round; fewer than n of them when it returned an error, which ends
\* the loop with what was appended and ok = false
RandomNOver(r, n, draws) ==
    IF n <= 1 \/ Len(r.out) < n
    THEN [out |-> <<>>, log |-> r.log, err |-> "notOk"]
    ELSE [out |-> [i \in 1..Len(draws) |-> r.out[draws[i] + 1]], log |-> r.log,
          err |-> IF Len(draws) < n THEN "randFailed" ELSE "ok"]

RandomN(h, c, n, draws) == RandomNOver(ToSlice(h, c), n, draws)

\* what cryptorand.Int can return over the rounds of RandomN(n) on a slice of
\* len elements: no round is run unless 2 <= n <= len
Draws(n, len) ==
    IF n <= 1 \/ len < n THEN {<<>>}
    ELSE UNION {[1..k -> 0..(len - 1)] : k \in 0..n}

RandomNReturned(n, r) ==
    /\ out' = r.out
    /\ log' = r.log
    /\ last' = [Did("RandomN", 1, n) EXCEPT !.f = r.err]
    /\ UNCHANGED <<heap, orig, gvars>>

DoRandomN ==
    /\ last.op = "NewFromSlice"
    /\ \E n \in (-1)..(MaxLen + 1) :
          \E draws \in Draws(n, Len(heap[1].data)) :
             RandomNReturned(n, RandomN(heap, 1, n, draws))

\* what a drain that panicked leaves in last.f
PanicOf(lg) == IF Panicked(lg) THEN "panic" ELSE ""

\* h's newest collection drained by ToSlice, a panic of the drain recorded
DrainOrPanic(op, n, h) ==
    LET r == ToSlice(h, Len(h))
    IN /\ heap' = h
       /\ out' = r.out
       /\ log' = r.log
       /\ last' = [Did(op, Len(h), n) EXCEPT !.f = PanicOf(r.log)]
       /\ UNCHANGED <<orig, gvars>>

DoSkipLast ==
    /\ Len(heap) = 1
    /\ \E n \in (-1)..(MaxLen + 1) :
          DrainOrPanic("SkipLast", n, SkipLast(heap, 1, n).heap)

DoTakeLast ==
    /\ Len(heap) = 1
    /\ \E n \in (-1)..(MaxLen + 1) :
          DrainOrPanic("TakeLast", n, TakeLast(heap, 1, n).heap)

NextParts ==
    \/ DoGroupBy
    \/ DoSkipLast
    \/ DoTakeLast
    \/ DoChunk
    \/ DoSingle
    \/ DoRandomN

SpecParts == InitAlg /\ [][NextParts]_vars

\* C17: the map GroupBy returns has one entry per key keySelector gives over
\* the source; the group of key k holds the source elements with key k, each
\* once, in source order; every element is in one group; an empty source
\* gives an empty map.
GroupByPartitions ==
    (last.op = "GroupBy") =>
        /\ DOMAIN out = {KeyOf(last.f, orig[i]) : i \in 1..Len(orig)}
        /\ \A k \in DOMAIN out :
              out[k] = SelectSeq(orig, LAMBDA x : KeyOf(last.f, x) = k)
        /\ \A i \in 1..Len(orig) :
              Cardinality({k \in DOMAIN out : \E j \in 1..Len(out[k]) : out[k][j] = orig[i]}) = 1
        /\ (orig = <<>>) => DOMAIN out = {}

\* C17 witness: three different elements were grouped by a key that two of
\* them share, into a group of two and a group of one
GroupByShared ==
    /\ last.op = "GroupBy"
    /\ last.f = "half"
    /\ orig = <<1, 2, 0>>
    /\ Cardinality(DOMAIN out) = 2
    /\ out[IntKey(0)] = <<1, 0>>

\* C18, as claimed: for every n a drain of SkipLast(n) or TakeLast(n) never
\* indexes the materialized slice outside it; for 0 <= n < len SkipLast(n)
\* yields the first len - n elements and TakeLast(n) the last n; for n >= len
\* SkipLast yields nothing and TakeLast everything; a negative n is treated
\* as 0 (the code has no way of rejecting it).
LastBoundsRespected ==
    (last.op \in {"SkipLast", "TakeLast"}) =>
        LET n == Max2(last.n, 0)
            len == Len(orig)
        IN /\ last.f # "panic"
           /\ (last.op = "SkipLast") =>
                 out = IF n >= len THEN <<>> ELSE SubSeq(orig, 1, len - n)
           /\ (last.op = "TakeLast") =>
                 out = IF n >= len THEN orig ELSE SubSeq(orig, len - n + 1, len)

\* C18: the state that refutes it: a drain of SkipLast(-1) over one element
\* has yielded it and then panicked indexing the slice at 1
SkipLastPanicked ==
    /\ last.op = "SkipLast"
    /\ last.n = -1
    /\ Len(orig) = 1
    /\ out = orig
    /\ log[Len(log)] = PanicEv(2, 1)

RECURSIVE Flatten(_)
Flatten(ss) == IF ss = <<>> THEN <<>> ELSE Head(ss) \o Flatten(Tail(ss))

\* C19: for size >= 1 Chunk(size) returns ceil(len / size) chunks whose
\* concatenation, in order, is the source; every chunk but the last has size
\* elements and the last has from 1 to size; an empty source gives no chunk.
ChunkCutsInOrder ==
    (last.op = "Chunk" /\ last.n >= 1) =>
        /\ Len(out) = (Len(orig) + last.n - 1) \div last.n
        /\ Flatten(out) = orig
        /\ \A i \in 1..(Len(out) - 1) : Len(out[i]) = last.n
        /\ (out # <<>>) => (1 <= Len(out[Len(out)]) /\ Len(out[Len(out)]) <= last.n)
        /\ (orig = <<>>) => out = <<>>

\* C19 witness: three elements, not all the same, were cut into a chunk of
\* two and a chunk of one
ChunkShortLast ==
    /\ last.op = "Chunk"
    /\ last.n = 2
    /\ Len(orig) = 3
    /\ orig[1] # orig[3]
    /\ Len(out) = 2
    /\ Len(out[2]) = 1

\* C20: Single returns (e, true) when and only when the source yields one
\* element, e; for no element and for two or more it returns ok = false and
\* SingleOrError returns ErrNotExactlyOneElement; it pulls at most two
\* elements from the source.
SingleOnlyOfOne ==
    (last.op = "Single") =>
        /\ (last.n = 1) <=> (Len(orig) = 1)
        /\ (last.n = 1) => (out = orig /\ last.f = "")
        /\ (last.n = 0) => last.f = "ErrNotExactlyOneElement"
        /\ Count(log, "pull") <= 2
        /\ Count(log, "pull") = Min2(Len(orig), 2)

\* C20 witness: Single over three elements has returned not-found after
\* pulling two of them
SingleOfThree ==
    /\ last.op = "Single"
    /\ Len(orig) = 3
    /\ last.n = 0
    /\ Count(log, "pull") = 2
    /\ last.f = "ErrNotExactlyOneElement"

\* C22: unless the random source fails, RandomN(n) with 1 <= n <= Len returns
\* ok = true and exactly n values, each an element of the collection; with
\* fewer than n elements it returns an empty slice and ok = false.
RandomNReturnsN ==
    (last.op = "RandomN" /\ last.f # "randFailed") =>
        /\ (1 <= last.n /\ last.n <= Len(orig)) =>
              /\ last.f = "ok"
              /\ Len(out) = last.n
              /\ \A i \in 1..Len(out) : \E j \in 1..Len(orig) : out[i] = orig[j]
        /\ (Len(orig) < last.n) => (last.f = "notOk" /\ out = <<>>)

\* C22 witness: RandomN(1) on three elements returned ok = false and nothing
RandomOneRefused ==
    /\ last.op = "RandomN"
    /\ last.n = 1
    /\ Len(orig) = 3
    /\ last.f = "notOk"
    /\ out = <<>>

(***************************************************************************)
(* Numerical functions over a signed integer element type of IntBits bits  *)
(***************************************************************************)
\* width of the integer element type of the numerical functions
IntBits == 3

\* the values of that type, and the value an arithmetic result wraps to
Ints == (-(2 ^ (IntBits - 1)))..(2 ^ (IntBits - 1) - 1)

Wrap(x) == ((x + 2 ^ (IntBits - 1)) % (2 ^ IntBits)) - 2 ^ (IntBits - 1)

RECURSIVE IntSeqsUpTo(_)
IntSeqsUpTo(n) ==
    IF n = 0 THEN {<<>>}
    ELSE LET shorter == IntSeqsUpTo(n - 1)
         IN shorter \cup {Append(s, v) : s \in {t \in shorter : Len(t) = n - 1}, v \in Ints}

InitNum ==
    /\ orig \in IntSeqsUpTo(MaxLen)
    /\ heap = <<NewFromSlice(orig)>>
    /\ last = Did("NewFromSlice", 1, 0)
    /\ out = <<>>
    /\ log = <<>>
    /\ NoGoroutines

\* a Min that starts from zero and has no first flag
MinBodyFromZero(min, first, t) == IF t < min THEN t ELSE min

\* Min's loop body: if first || t < min { min = t }
MinBody(min, first, t) == IF first \/ t < min THEN t ELSE min

\* Max's loop body: if first || t > max { max = t }
MaxBody(max, first, t) == IF first \/ t > max THEN t ELSE max

\* for t := range *c { ...; first = false }: the loop never stops early
RECURSIVE MinLoop(_, _, _, _), MaxLoop(_, _, _, _)
MinLoop(min, first, s, i) ==
    IF i > Len(s) THEN min ELSE MinLoop(MinBody(min, first, s[i]), FALSE, s, i + 1)

MaxLoop(max, first, s, i) ==
    IF i > Len(s) THEN max ELSE MaxLoop(MaxBody(max, first, s[i]), FALSE, s, i + 1)

\* min := T(0); first := true; the loop; return min.  No error is returned.
MinOver(r) == [out |-> <<MinLoop(0, TRUE, r.out, 1)>>, log |-> r.log, err |-> ""]

Min(h, c) == MinOver(ToSlice(h, c))

MaxOver(r) == [out |-> <<MaxLoop(0, TRUE, r.out, 1)>>, log |-> r.log, err |-> ""]

Max(h, c) == MaxOver(ToSlice(h, c))

\* slices.Sort over integers: ascending order
RECURSIVE slicesSort(_)
slicesSort(s) ==
    IF s = <<>> THEN <<>>
    ELSE LET t == slicesSort(Tail(s))
             k == Cardinality({i \in 1..Len(t) : t[i] < Head(s)})
         IN SubSeq(t, 1, k) \o <<Head(s)>> \o SubSeq(t, k + 1, Len(t))

\* Median after c.ToSlice(): the *big.Float is out, as <<numerator,
\* denominator>>.  slice[mid-1]+slice[mid] is computed in T and wraps; the
\* conversion to float64 and the division by 2 are exact at this width.
MedianOver(r) ==
    IF Len(r.out) = 0
    THEN [out |-> <<>>, log |-> r.log, err |-> "cannot compute median of empty collection"]
    ELSE LET slice == slicesSort(r.out)
             mid == Len(slice) \div 2
         IN IF Len(slice) % 2 = 0
            THEN [out |-> <<Wrap(slice[mid] + slice[mid + 1]), 2>>, log |-> r.log, err |-> ""]
            ELSE [out |-> <<slice[mid + 1], 1>>, log |-> r.log, err |-> ""]

Median(h, c) == MedianOver(ToSlice(h, c))

NumReturned(op, r) ==
    /\ out' = r.out
    /\ log' = r.log
    /\ last' = [Did(op, 1, 0) EXCEPT !.f = r.err]
    /\ UNCHANGED <<heap, orig, gvars>>

DoMin == Len(heap) = 1 /\ last.op = "NewFromSlice" /\ NumReturned("Min", Min(heap, 1))

DoMax == Len(heap) = 1 /\ last.op = "NewFromSlice" /\ NumReturned("Max", Max(heap, 1))

DoMedian == Len(heap) = 1 /\ last.op = "NewFromSlice" /\ NumReturned("Median", Median(heap, 1))

NextNum ==
    \/ DoMin
    \/ DoMax
    \/ DoMedian

SpecNum == InitNum /\ [][NextNum]_vars

Sorted(s) == \A i \in 1..(Len(s) - 1) : s[i] <= s[i + 1]

\* the elements of s in ascending order
Ascending(s) ==
    CHOOSE t \in [1..Len(s) -> Ints] :
        /\ Sorted(t)
        /\ \A v \in Ints : Cardinality({i \in 1..Len(s) : s[i] = v})
                         = Cardinality({i \in 1..Len(t) : t[i] = v})

\* C21: Median of an even-length sequence is the arithmetic mean of the two
\* middle elements of the sorted sequence, whatever their sum; of an
\* odd-length sequence it is the middle element; of an empty one, an error.
MedianIsMean ==
    (last.op = "Median") =>
        LET n == Len(orig)
            t == Ascending(orig)
        IN /\ (n = 0) => (last.f # "" /\ out = <<>>)
           /\ (n > 0 /\ n % 2 = 1) => (last.f = "" /\ out = <<t[(n + 1) \div 2], 1>>)
           /\ (n > 0 /\ n % 2 = 0) =>
                 (last.f = "" /\ out = <<t[n \div 2] + t[n \div 2 + 1], 2>>)

\* C21 witness: the median of two positive elements came out negative
MedianWrapped ==
    /\ last.op = "Median"
    /\ Len(orig) = 2
    /\ orig[1] > 0 /\ orig[2] > 0
    /\ out[1] < 0

\* C23: on a non-empty collection Min returns the least element and Max the
\* greatest, also when all are negative or all positive; on an empty
\* collection both return zero, and no error.
MinMaxAreExtremes ==
    (last.op \in {"Min", "Max"}) =>
        /\ last.f = ""
        /\ Len(out) = 1
        /\ (orig = <<>>) => out[1] = 0
        /\ (orig # <<>>) =>
              /\ \E i \in 1..Len(orig) : orig[i] = out[1]
              /\ (last.op = "Min") => \A i \in 1..Len(orig) : out[1] <= orig[i]
              /\ (last.op = "Max") => \A i \in 1..Len(orig) : out[1] >= orig[i]

\* C23 witness: Min over positive elements, not in ascending order, returned
\* a positive element
MinOfPositives ==
    /\ last.op = "Min"
    /\ Len(orig) = 3
    /\ \A i \in 1..3 : orig[i] > 0
    /\ orig[2] < orig[1]
    /\ out[1] = orig[2]

(***************************************************************************)
(* Sources that can be drained once: a collection over a channel           *)
(***************************************************************************)
InitOneShot ==
    /\ orig \in Slices
    /\ heap \in {<<NewFromSlice(orig)>>, <<NewFromChannel(orig)>>}
    /\ last = Did("New", 1, 0)
    /\ out = <<>>
    /\ log = <<>>
    /\ NoGoroutines

\* a drain that returned r on heap h: what it received is off the channels
DrainedOff(op, n, f, h, r) ==
    /\ heap' = Received(h, r.log)
    /\ out' = r.out
    /\ log' = r.log
    /\ last' = [Did(op, Len(h), n) EXCEPT !.f = f]
    /\ UNCHANGED <<orig, gvars>>

\* c.Take(n).ToSlice()
TakeDrained(n, h) == DrainedOff("Take", n, "", h, ToSlice(h, Len(h)))

DoTake ==
    /\ last.op = "New"
    /\ \E n \in (-1)..(MaxLen + 1) : TakeDrained(n, Take(heap, 1, n).heap)

\* after it, c.ToSlice() on the source of the Take
DoRest ==
    /\ last.op = "Take"
    /\ DrainedOff("Rest", last.n, "", heap, ToSlice(heap, 1))

\* Join(c, inner, ...).ToSlice()
JoinDrained(f, h) == DrainedOff("Join", 0, f[2], h, ToSlice(h, Len(h)))

\* inner is built, over a slice or over a channel, and joined with c
DoJoin ==
    /\ last.op = "New"
    /\ \E s \in SeqsUpTo(MaxSrc), innerKey \in {"self", "parity"} :
          \E inner \in {NewFromSlice(s), NewFromChannel(s)} :
             JoinDrained(<<"self", innerKey>>,
                         Join(Append(heap, inner), 1, 2, <<"self", innerKey>>).heap)

\* Partition's loop body: append v to matches or to nonMatches
PartitionBody(parts, f, v) ==
    IF Pred(f, v) THEN <<Append(parts[1], v), parts[2]>>
    ELSE <<parts[1], Append(parts[2], v)>>

RECURSIVE PartitionLoop(_, _, _, _)
PartitionLoop(parts, f, s, i) ==
    IF i > Len(s) THEN parts ELSE PartitionLoop(PartitionBody(parts, f, s[i]), f, s, i + 1)

\* the two collections returned are out, each by the slice it ranges over;
\* r is the loop's drain of c, which never stops early
PartitionOver(f, r) ==
    [out |-> PartitionLoop(<<<<>>, <<>>>>, f, Head(r.K).buf, 1), log |-> r.log]

\* Partition: c.Len() for the initial capacity drains c; then the loop
\* drains it again
Partition(h, c, f) ==
    PartitionOver(f, Run(h, c, <<Frame("toSlice", 0)>>,
                         Run(h, c, <<Frame("len", 0)>>, <<>>).log))

DoPartition ==
    /\ last.op = "New"
    /\ \E f \in {"isOdd", "isPos"} :
          DrainedOff("Partition", 0, f, heap, Partition(heap, 1, f))

NextOneShot ==
    \/ DoPartition
    \/ DoTake
    \/ DoRest
    \/ DoJoin

SpecOneShot == InitOneShot /\ [][NextOneShot]_vars

\* C24: a drain of Take(n) pulls at most n elements from its source, none
\* when n <= 0; over a channel the element after the n-th is still there for
\* a later drain.
TakeDoesNotOverFetch ==
    /\ (last.op = "Take") => Pulled(1, log) <= Max2(last.n, 0)
    /\ (last.op = "Rest" /\ heap[1].op = "chan") => out = Suffix(orig, last.n)

\* C24 witness: after Take(1) over a channel of three elements, the later
\* drain of the channel found the third only
TakeAteTheNext ==
    /\ last.op = "Rest"
    /\ heap[1].op = "chan"
    /\ last.n = 1
    /\ Len(orig) = 3
    /\ out = <<orig[3]>>

\* the pairs of o with the elements of inner that have its key, in order
PairsOf(o, inner, innerKey) ==
    LET matching == SelectSeq(inner, LAMBDA i : Sel("self", o) = Sel(innerKey, i))
    IN [j \in 1..Len(matching) |-> <<o, matching[j]>>]

\* C25: during one drain of Join the inner source is drained once, whatever
\* the number of outer elements, and the results are the pairs with equal
\* keys, by outer position and then by inner position, also over an inner
\* source that can be drained only once.
JoinMaterializesInnerOnce ==
    (last.op = "Join") =>
        /\ Pulled(2, log) <= Len(heap[2].data)
        /\ out = Flatten([k \in 1..Len(orig) |-> PairsOf(orig[k], heap[2].data, last.f)])

\* C25 witness: two equal outer elements joined with a channel holding that
\* element gave one pair
JoinLostPairs ==
    /\ last.op = "Join"
    /\ heap[2].op = "chan"
    /\ Len(orig) = 2 /\ orig[1] = orig[2]
    /\ heap[2].data = <<orig[1]>>
    /\ last.f = "self"
    /\ out = <<<<orig[1], orig[1]>>>>

\* with an inner source that can be drained again, Join gives the pairs with
\* equal keys in outer-then-inner order
JoinPairsInOrder ==
    (last.op = "Join" /\ heap[2].op = "slice") =>
        out = Flatten([k \in 1..Len(orig) |-> PairsOf(orig[k], heap[2].data, last.f)])

\* C26: Partition(pred) drains its source once and returns the source
\* elements satisfying pred and the others, each in source order, also over
\* a source that can be drained only once.
PartitionSinglePass ==
    (last.op = "Partition") =>
        /\ Pulled(1, log) = Len(orig)
        /\ out[1] = SelectSeq(orig, LAMBDA v : Pred(last.f, v))
        /\ out[2] = SelectSeq(orig, LAMBDA v : ~Pred(last.f, v))

\* C26 witness: Partition over a channel of three elements returned two empty
\* collections
PartitionFoundNothing ==
    /\ last.op = "Partition"
    /\ heap[1].op = "chan"
    /\ Len(orig) = 3
    /\ out = <<<<>>, <<>>>>

\* over a source that can be drained again, Partition splits it in order
PartitionSplitsInOrder ==
    (last.op = "Partition" /\ heap[1].op = "slice") =>
        /\ out[1] = SelectSeq(orig, LAMBDA v : Pred(last.f, v))
        /\ out[2] = SelectSeq(orig, LAMBDA v : ~Pred(last.f, v))

(***************************************************************************)
(* Drains of one collection over a slice: what they pull and ask           *)
(***************************************************************************)
DoSkipWhile ==
    /\ Len(heap) = 1
    /\ \E f \in {"isOdd", "isPos"} :
          BuildAndDrain("SkipWhile", 0, f, SkipWhile(heap, 1, f).heap)

DoSkipUntil ==
    /\ Len(heap) = 1
    /\ \E f \in {"isOdd", "isPos"} :
          BuildAndDrain("SkipUntil", 0, f, SkipUntil(heap, 1, f).heap)

\* First and ElementAt returned r: last.f tells ok
Found(op, n, r) ==
    /\ out' = r.out
    /\ log' = r.log
    /\ last' = [Did(op, 1, n) EXCEPT !.f = IF r.ok THEN "ok" ELSE "notFound"]
    /\ UNCHANGED <<heap, orig, gvars>>

DoFirstOfSlice == Len(heap) = 1 /\ Found("First", 0, First(heap, 1))

DoElementAtOfSlice ==
    /\ Len(heap) = 1
    /\ \E index \in (-1)..MaxLen : Found("ElementAt", index, ElementAt(heap, 1, index))

NextDrains ==
    \/ DoSkipWhile
    \/ DoSkipUntil
    \/ DoFirstOfSlice
    \/ DoElementAtOfSlice

SpecDrains == InitAlg /\ [][NextDrains]_vars

\* the first position of s where f gives b, one past the end if there is none
FirstWhere(s, f, b) ==
    IF \E i \in 1..Len(s) : Pred(f, s[i]) = b
    THEN CHOOSE i \in 1..Len(s) :
            Pred(f, s[i]) = b /\ \A j \in 1..(i - 1) : Pred(f, s[j]) # b
    ELSE Len(s) + 1

\* the elements f was called on, in the order of the calls
Asked(lg) ==
    LET calls == SelectSeq(lg, LAMBDA e : e.ev = "call")
    IN [i \in 1..Len(calls) |-> calls[i].v]

\* C27: SkipWhile(p) suppresses the elements before the first for which p is
\* false, SkipUntil(p) those before the first for which p is true; that
\* element and every later one are forwarded, and p is not called again
\* after it.
SkipPhaseIsOneWay ==
    (last.op \in {"SkipWhile", "SkipUntil"}) =>
        LET k == FirstWhere(orig, last.f, last.op = "SkipUntil")
        IN /\ out = SubSeq(orig, k, Len(orig))
           /\ Asked(log) = SubSeq(orig, 1, Min2(k, Len(orig)))

\* C27 witness: SkipWhile(isOdd) over an odd, an even and an odd element
\* forwarded the last two and asked about the first two
SkipWhileForwardedOdd ==
    /\ last.op = "SkipWhile"
    /\ last.f = "isOdd"
    /\ Len(orig) = 3
    /\ Pred("isOdd", orig[1]) /\ ~Pred("isOdd", orig[2]) /\ Pred("isOdd", orig[3])
    /\ out = <<orig[2], orig[3]>>
    /\ Len(Asked(log)) = 2

\* C28: First on a non-empty source pulls one element and returns it with
\* ok = true, and ok = false on an empty one; ElementAt(i) with 0 <= i < len
\* pulls i+1 elements and returns the i-th; with i < 0 it returns not-found
\* and pulls nothing, with i >= len it returns not-found.
FirstAndElementAtDrainMinimally ==
    /\ (last.op = "First") =>
          IF orig = <<>> THEN last.f = "notFound" /\ out = <<>> /\ Pulled(1, log) = 0
          ELSE last.f = "ok" /\ out = <<orig[1]>> /\ Pulled(1, log) = 1
    /\ (last.op = "ElementAt") =>
          /\ (0 <= last.n /\ last.n < Len(orig)) =>
                (last.f = "ok" /\ out = <<orig[last.n + 1]>> /\ Pulled(1, log) = last.n + 1)
          /\ (last.n < 0) => (last.f = "notFound" /\ out = <<>> /\ log = <<>>)
          /\ (last.n >= Len(orig)) => (last.f = "notFound" /\ out = <<>>)

\* C28 witness: ElementAt(1) over three elements, the first two different,
\* returned the second after two pulls
ElementAtStoppedAtIndex ==
    /\ last.op = "ElementAt"
    /\ last.n = 1
    /\ Len(orig) = 3
    /\ orig[1] # orig[2]
    /\ out = <<orig[2]>>
    /\ Pulled(1, log) = 2

(***************************************************************************)
(* Zip's goroutines after the drain                                        *)
(***************************************************************************)
\* a goroutine that can take a step is scheduled
SpecZipFair ==
    /\ SpecZip
    /\ WF_vars(GenRange("gen1", 1))
    /\ WF_vars(GenRange("gen2", 2))
    /\ WF_vars(GenClose("gen1", "iter1"))
    /\ WF_vars(GenClose("gen2", "iter2"))
    /\ WF_vars(ZipRecv1)
    /\ WF_vars(ZipRecv1Closed)
    /\ WF_vars(ZipRecv2)
    /\ WF_vars(ZipRecv2Closed)
    /\ WF_vars(ZipYield)

\* C29: after a drain of Zip has returned, because a source was exhausted or
\* the consumer stopped, both producer goroutines eventually terminate.
ZipProducersTerminate ==
    (Zipping /\ pc.zip = "done") ~> (Zipping /\ pc.gen1 = "done" /\ pc.gen2 = "done")

\* C29 witness: the drain has returned because the second source, which is
\* empty, was exhausted, and the first producer is in its send of the second
\* of its two elements
ZipProducerBlocked ==
    /\ Zipping
    /\ pc.zip = "done"
    /\ last.n = 0
    /\ Len(heap[1].data) = 2
    /\ Len(heap[2].data) = 0
    /\ pc.gen1 = "send"
    /\ idx.gen1 = 2
    /\ pc.gen2 = "done"

(***************************************************************************)
(* SpecFrame: collections are derived from a slice-backed collection,      *)
(* object 1; then Pop and Shift change object 1, and the derived           *)
(* collections are drained, in any order.  Here last.op stays the operator *)
(* that derived them; last.f is the caller's latest step after that, and   *)
(* last.c the collection it was on.                                        *)
(***************************************************************************)
BuildsOnSource == Len(heap) = 1 /\ last.op = "NewFromSlice"

DeriveLazy == BuildsOnSource /\ (NewWhere \/ NewSelect \/ NewTake)

DeriveReverse == BuildsOnSource /\ NewReverse

DeriveOrderBy ==
    /\ BuildsOnSource
    /\ \E sorted \in SortFunc(heap[1].data, "self", TRUE) :
          Construct("OrderBy", OrderBy(heap, 1, sorted))

\* the collections an operator returned, each NewFromSlice over a slice of
\* its own, are on the heap after object 1
Materialized(op, r) ==
    /\ heap' = heap \o [i \in 1..Len(r.out) |-> NewFromSlice(r.out[i])]
    /\ log' = r.log
    /\ out' = <<>>
    /\ last' = Did(op, 1, 0)
    /\ UNCHANGED <<orig, gvars>>

\* the groups of the map GroupBy returned, in some order of its keys
GroupsOf(r) ==
    LET keys == DOMAIN r.out
        order == CHOOSE s \in [1..Cardinality(keys) -> keys] :
                    \A i, j \in 1..Cardinality(keys) : s[i] = s[j] => i = j
    IN [out |-> [i \in 1..Cardinality(keys) |-> r.out[order[i]]], log |-> r.log]

DerivePartition == BuildsOnSource /\ Materialized("Partition", Partition(heap, 1, "isOdd"))

DeriveChunk == BuildsOnSource /\ Materialized("Chunk", Chunk(heap, 1, 2))

DeriveGroupBy == BuildsOnSource /\ Materialized("GroupBy", GroupsOf(GroupBy(heap, 1, "half")))

\* c.Pop() or c.Shift() returned r
RemovedLater(step, r) ==
    /\ heap' = r.heap
    /\ out' = r.out
    /\ log' = r.log
    /\ last' = [last EXCEPT !.f = step, !.c = 1]
    /\ UNCHANGED <<orig, gvars>>

PopAfter == ~BuildsOnSource /\ RemovedLater("Pop", Pop(heap, 1))

ShiftAfter == ~BuildsOnSource /\ RemovedLater("Shift", Shift(heap, 1))

\* d.ToSlice() returned r
DrainedLater(c, r) ==
    /\ out' = r.out
    /\ log' = r.log
    /\ last' = [last EXCEPT !.f = "ToSlice", !.c = c]
    /\ UNCHANGED <<heap, orig, gvars>>

DrainDerived ==
    /\ Len(heap) >= 2
    /\ \E c \in 2..Len(heap) : DrainedLater(c, ToSlice(heap, c))

NextFrame ==
    \/ DeriveLazy
    \/ DeriveReverse
    \/ DeriveOrderBy
    \/ DerivePartition
    \/ DeriveChunk
    \/ DeriveGroupBy
    \/ PopAfter
    \/ ShiftAfter
    \/ DrainDerived

SpecFrame == InitAlg /\ [][NextFrame]_vars

\* a drain of a lazily derived collection gives what its operator gives over
\* what object 1 yields now
LazyFollowsSource ==
    (last.f = "ToSlice") =>
        LET d == heap[last.c]
            now == ToSlice(heap, 1).out
        IN /\ (last.op = "Where") => out = SelectSeq(now, LAMBDA v : Pred(d.f, v))
           /\ (last.op = "Select") => out = [i \in 1..Len(now) |-> Sel(d.f, now[i])]
           /\ (last.op = "Take") => out = Prefix(now, d.n)

EagerOps == {"OrderBy", "Reverse", "Partition", "Chunk", "GroupBy"}

\* no later step changes what a collection built by an eager operator yields
EagerKeepsContents ==
    (last.op \in EagerOps) =>
        \A c \in 2..Len(heap) : ToSlice(heap', c).out = ToSlice(heap, c).out

\* C30: after c.Pop() or c.Shift() every later drain of a collection derived
\* lazily from c (Where, Select, Take) is computed from c's new contents;
\* collections built by eager operators (OrderBy, Reverse, Partition, Chunk,
\* GroupBy) before the Pop or Shift are unaffected.
DerivedReadAtDrainTime == []LazyFollowsSource /\ [][EagerKeepsContents]_vars

\* C30 witness: Where(isOdd) was built over an odd, an even and an odd
\* element; after a Pop its drain gave one element
WhereSawThePop ==
    /\ last.op = "Where"
    /\ last.f = "ToSlice"
    /\ Len(orig) = 3
    /\ Pred("isOdd", orig[1]) /\ ~Pred("isOdd", orig[2]) /\ Pred("isOdd", orig[3])
    /\ heap[1].data = <<orig[1], orig[2]>>
    /\ out = <<orig[1]>>

====
